---- MODULE Spec2Model ----
(***************************************************************************)
(* Model of the search-collect-filter-enrich pipeline of the Google Map    *)
(* exporter (scraper.js: class GoogleMapScraper, held in src/index.js      *)
(* from line 191 on).                                                      *)
(*                                                                         *)
(* Numbers: a rating is kept in tenths (4.5 is 45); NaN is the value       *)
(* parseInt gives for a string without digits.                             *)
(* Strings that the code scans are sequences of characters. An ASCII       *)
(* character is written as itself; the others are written by name:         *)
(*   "YEN" U+FFE5, "yen" U+00A5, "dot" U+00B7 (middle dot), "tilde" U+FF5E,*)
(*   "star" U+2605, "ken" U+4EF6 (the counter of reviews),                 *)
(*   "getsu" "ka2" "sui" "moku" "kin" "do" "nichi": the day characters     *)
(*   Monday..Sunday, "you": U+66DC (so a day name is e.g. getsu you nichi),*)
(*   "ji" U+6642 (hour), "fun" U+5206 (minute), "tei" "kyuu" "mi": the     *)
(*   characters of the closed-day markers, "ei" "gyou": of "open",        *)
(*   "ra" "cho" "me" "nn" "ka" "fu" "xe" "ten" "ya" "shin" "juku": kana    *)
(*   and kanji of category and address words.                              *)
(*   "juu" "sho": the two characters of "address"; "no" "ku" "chi" "ko"    *)
(*   "mi2": the characters after "ken" in "N reviews" of a detail page;    *)
(*   "ro" "ru" "ga" "i2" "do2": with "cho" and "ka", "local guide";        *)
(*   "nin" "a2" "ta" "ri": the characters of "per person".                 *)
(***************************************************************************)
EXTENDS Integers, Sequences, FiniteSets, TLC

VARIABLES
    retry,      \* the running retryOperation call (its locals and position)
    pc,         \* position of search()
    req,        \* arguments of search(): minRating, minReviews, filters
    scroll,     \* locals of autoScroll
    candidates, \* result of extractBasicList
    errorCount, \* extractBasicList's errorCount
    targets,    \* the pre-filtered candidates
    sched,      \* locals of the detail stage of search()
    web,        \* what the run meets on the web: the links of the feed, the detail pages
    events,     \* progress events handed to progressCallback, in order
    ret,        \* how search() ended
    probe       \* a function of the scraper called on its own: its arguments and result

vars == <<retry, pc, req, scroll, candidates, errorCount, targets, sched, web, events, ret, probe>>

(***************************************************************************)
(* Bounds of the model                                                     *)
(***************************************************************************)
MaxAttempts == 4        \* largest maxRetries argument tried on retryOperation
MaxFeed == 4            \* longest feed whose links are varied in every way
MaxHeight == 2          \* largest scrollHeight the feed reports
MaxLinks == 3           \* longest feed given to extractBasicList on its own
MaxText == 7            \* longest item text whose rating is parsed on its own
MaxSegments == 2        \* most segments of a business-hours text given to checkOpenAtTime
MaxLogs == 1            \* most lines the scraper of one session logs while it runs

(***************************************************************************)
(* Program constants                                                       *)
(***************************************************************************)
maxRetries == 3         \* this.maxRetries
retryDelay == 2000      \* this.retryDelay
maxItemsPerTab == 3     \* const maxItemsPerTab = 3
maxTabs == 5            \* Math.min(.., 5)
maxScrollAttempts == 100
noChangeLimit == 3      \* if (noChangeCount >= 3) break

NaN == -1               \* parseInt('') ; never equal to a count the code parses
Null == -2              \* null, for a number that may be absent

Errors == {"timeout", "net::ERR_FAILED"}   \* messages of the errors fn may throw
Values == {"v1", "v2"}                      \* values fn may resolve to

Last(s) == s[Len(s)]

(***************************************************************************)
(* Strings as sequences of characters, and the pieces of the regular       *)
(* expressions the extractors use                                          *)
(***************************************************************************)
Digits == {"0", "1", "2", "3", "4", "5", "6", "7", "8", "9"}
DigitSeq == <<"0", "1", "2", "3", "4", "5", "6", "7", "8", "9">>
DigitVal(c) == (CHOOSE k \in 1..10 : DigitSeq[k] = c) - 1
Space == {" ", "\n"}                      \* \s, and what trim() removes
Yen == {"YEN", "yen"}

UpperSeq == <<"A", "B", "C", "D", "E", "F", "G", "H", "I", "J", "K", "L", "M",
              "N", "O", "P", "Q", "R", "S", "T", "U", "V", "W", "X", "Y", "Z">>
LowerSeq == <<"a", "b", "c", "d", "e", "f", "g", "h", "i", "j", "k", "l", "m",
              "n", "o", "p", "q", "r", "s", "t", "u", "v", "w", "x", "y", "z">>
\* s.toLowerCase()
ToLower(s) ==
    [k \in 1..Len(s) |->
        IF \E n \in 1..26 : UpperSeq[n] = s[k]
        THEN LowerSeq[CHOOSE n \in 1..26 : UpperSeq[n] = s[k]]
        ELSE s[k]]

SetMin(S) == CHOOSE x \in S : \A y \in S : x <= y
SetMax(S) == CHOOSE x \in S : \A y \in S : x >= y

\* s.substring(a - 1, b) for 1-based a, b: the characters a..b
Sub(s, a, b) == IF a > b THEN <<>> ELSE SubSeq(s, a, b)

\* whether t occurs in s at position i
At(s, i, t) ==
    /\ i >= 1
    /\ i + Len(t) - 1 <= Len(s)
    /\ \A k \in 1..Len(t) : s[i + k - 1] = t[k]

\* s.indexOf(t), 1-based, 0 when absent ; s.includes(t)
IndexOf(s, t) ==
    LET hits == {i \in 1..(Len(s) + 1) : At(s, i, t)}
    IN  IF hits = {} THEN 0 ELSE SetMin(hits)
Includes(s, t) == IndexOf(s, t) # 0

\* the end of the longest run of characters of class C that starts at i
\* (i - 1 when s[i] is not in C): a greedy C*
RunEnd(s, i, C) ==
    SetMax({j \in (i - 1)..Len(s) : \A k \in i..j : s[k] \in C})

\* s.trim()
Trim(s) ==
    LET keep == {i \in 1..Len(s) : s[i] \notin Space}
    IN  IF keep = {} THEN <<>> ELSE Sub(s, SetMin(keep), SetMax(keep))

\* s.replace(/[..]/g, '') : s without its characters of class C
RECURSIVE Without(_, _)
Without(s, C) ==
    IF s = <<>> THEN <<>>
    ELSE IF Head(s) \in C THEN Without(Tail(s), C)
    ELSE <<Head(s)>> \o Without(Tail(s), C)

\* parseInt(s): the number written by the leading digits, NaN without any
RECURSIVE DigitsValue(_, _)
DigitsValue(s, acc) ==
    IF s = <<>> \/ Head(s) \notin Digits THEN acc
    ELSE DigitsValue(Tail(s), 10 * acc + DigitVal(Head(s)))
ParseInt(s) ==
    LET t == Trim(s)
    IN  IF t = <<>> \/ Head(t) \notin Digits THEN NaN ELSE DigitsValue(t, 0)

\* text.split(sep): the pieces between the occurrences of the character sep
RECURSIVE Split(_, _)
Split(s, sep) ==
    LET cut == {i \in 1..Len(s) : s[i] = sep}
    IN  IF cut = {} THEN <<s>>
        ELSE <<Sub(s, 1, SetMin(cut) - 1)>> \o Split(Sub(s, SetMin(cut) + 1, Len(s)), sep)

RECURSIVE SelectNonEmpty(_)
SelectNonEmpty(ss) ==
    IF ss = <<>> THEN <<>>
    ELSE IF Head(ss) = <<>> THEN SelectNonEmpty(Tail(ss))
    ELSE <<Head(ss)>> \o SelectNonEmpty(Tail(ss))

\* text.split(sep).map(s => s.trim()).filter(s => s)
SplitTrim(s, sep) ==
    LET parts == Split(s, sep)
    IN  SelectNonEmpty([k \in 1..Len(parts) |-> Trim(parts[k])])

(***************************************************************************)
(* extractBasicList: rating and review count of one item text              *)
(***************************************************************************)
\* /[1-5]\.[0-9]/ at position i
RatingAt(s, i) ==
    /\ i + 2 <= Len(s)
    /\ s[i] \in {"1", "2", "3", "4", "5"}
    /\ s[i + 1] = "."
    /\ s[i + 2] \in Digits
RatingVal(s, i) == 10 * DigitVal(s[i]) + DigitVal(s[i + 2])

\* a rating is taken when val >= 1.0 && val <= 5.0
RatingInRangeLoose(val) == val >= 10
RatingInRange(val) == val >= 10 /\ val <= 50

\* text.match(/([1-5]\.[0-9])/g), the matches from left to right without
\* overlap, and the first of them that is in range; 0 when there is none
RECURSIVE ListRatingFrom(_, _)
ListRatingFrom(s, i) ==
    IF i + 2 > Len(s) THEN 0
    ELSE IF RatingAt(s, i)
         THEN IF RatingInRange(RatingVal(s, i)) THEN RatingVal(s, i)
              ELSE ListRatingFrom(s, i + 3)
         ELSE ListRatingFrom(s, i + 1)
ListRating(text) == ListRatingFrom(text, 1)

\* /\(([0-9,\.]+)\)/ at position i: the end of the group, 0 without a match
ParenCountEnd(s, i) ==
    LET e == RunEnd(s, i + 1, Digits \cup {",", "."})
    IN  IF i <= Len(s) /\ s[i] = "(" /\ e >= i + 1 /\ e + 1 <= Len(s) /\ s[e + 1] = ")"
        THEN e ELSE 0

\* pattern 1: text.match(/\(([0-9,\.]+)\)/), then parseInt of the group
\* without its commas and dots. <<found, value>>
ReviewMatch1(s) ==
    LET hits == {i \in 1..Len(s) : ParenCountEnd(s, i) # 0}
    IN  IF hits = {} THEN <<FALSE, 0>>
        ELSE LET i == SetMin(hits)
             IN  <<TRUE, ParseInt(Without(Sub(s, i + 1, ParenCountEnd(s, i)), {",", "."}))>>

\* /([0-9,]+)\s*<word>/ : the leftmost position where a run of [0-9,] is
\* followed, after optional white space, by word (for 'reviews?' with the
\* i flag, word is given in both cases)
CountBeforeWord(s, words) ==
    LET C == Digits \cup {","}
        ok(i) == /\ s[i] \in C
                 /\ \E w \in words : At(s, RunEnd(s, RunEnd(s, i, C) + 1, Space) + 1, w)
        hits == {i \in 1..Len(s) : ok(i)}
    IN  IF hits = {} THEN <<FALSE, 0>>
        ELSE LET i == SetMin(hits)
             IN  <<TRUE, ParseInt(Without(Sub(s, i, RunEnd(s, i, C)), {","}))>>

\* pattern 2: /([0-9,]+)\s*件/ ; pattern 3: /([0-9,]+)\s*reviews?/i
ReviewMatch2(s) == CountBeforeWord(s, {<<"ken">>})
ReviewMatch3(s) ==
    CountBeforeWord(s, {<<a, b, c, d, e, f>> : a \in {"r", "R"}, b \in {"e", "E"},
                        c \in {"v", "V"}, d \in {"i", "I"}, e \in {"e", "E"}, f \in {"w", "W"}})

\* pattern 4: /[1-5]\.[0-9]\s*\(([0-9,\.]+)\)/
ReviewMatch4(s) ==
    LET open(i) == RunEnd(s, i + 3, Space) + 1
        hits == {i \in 1..Len(s) : RatingAt(s, i) /\ ParenCountEnd(s, open(i)) # 0}
    IN  IF hits = {} THEN <<FALSE, 0>>
        ELSE LET i == SetMin(hits)
             IN  <<TRUE, ParseInt(Without(Sub(s, open(i) + 1, ParenCountEnd(s, open(i))),
                                          {",", "."}))>>

\* let reviews = 0; if (reviewMatch1) reviews = parseInt(..);
\* if (reviews === 0) { pattern 2 } if (reviews === 0) { pattern 3 } ...
\* (NaN === 0 is false, so a NaN stays)
ReviewsAfter(prev, m) == IF prev = 0 /\ m[1] THEN m[2] ELSE prev
ListReviews(text) ==
    ReviewsAfter(ReviewsAfter(ReviewsAfter(ReviewsAfter(0,
        ReviewMatch1(text)), ReviewMatch2(text)), ReviewMatch3(text)), ReviewMatch4(text))

(***************************************************************************)
(* extractBasicList: budget, category, name and review snippet             *)
(***************************************************************************)
Unknown == <<"U", "n", "k", "n", "o", "w", "n">>

\* the characters of [ぁ-んァ-ヶー一-龠] and of [a-zA-Z] that the texts of the
\* model are written with
Japanese == {"ra", "cho", "me", "nn", "ka", "fu", "xe", "ten", "ya", "shin", "juku",
             "getsu", "ka2", "sui", "moku", "kin", "do", "nichi", "you", "ji", "fun",
             "tei", "kyuu", "mi", "ei", "gyou", "ken"}
Latin == {UpperSeq[k] : k \in 1..26} \cup {LowerSeq[k] : k \in 1..26}

\* /[￥¥][0-9,]+(?:～[0-9,]+)?/ at position i: its end, 0 without a match
BudgetEnd(s, i) ==
    LET C  == Digits \cup {","}
        e1 == RunEnd(s, i + 1, C)
        e2 == RunEnd(s, e1 + 2, C)
    IN  IF i <= Len(s) /\ s[i] \in Yen /\ e1 >= i + 1
        THEN IF e1 + 1 <= Len(s) /\ s[e1 + 1] = "tilde" /\ e2 >= e1 + 2 THEN e2 ELSE e1
        ELSE 0

\* const budgetMatch = text.match(/[￥¥][0-9,]+(?:～[0-9,]+)?/) ; '' without
ListBudget(text) ==
    LET hits == {i \in 1..Len(text) : BudgetEnd(text, i) # 0}
    IN  IF hits = {} THEN <<>> ELSE Sub(text, SetMin(hits), BudgetEnd(text, SetMin(hits)))

\* categoryPatterns[0]: a budget directly followed by a run of Japanese
CategoryMatch1(s) ==
    LET grp(i) == Sub(s, BudgetEnd(s, i) + 1, RunEnd(s, BudgetEnd(s, i) + 1, Japanese))
        hits == {i \in 1..Len(s) : BudgetEnd(s, i) # 0 /\ grp(i) # <<>>}
    IN  IF hits = {} THEN <<>> ELSE grp(SetMin(hits))

\* categoryPatterns[1]: /·\s*([..a-zA-Z]+..)\s*·/
CategoryMatch2(s) ==
    LET C == Japanese \cup Latin
        from(i) == RunEnd(s, i + 1, Space) + 1
        grp(i) == Sub(s, from(i), RunEnd(s, from(i), C))
        ok(i) == /\ s[i] = "dot"
                 /\ grp(i) # <<>>
                 /\ At(s, RunEnd(s, RunEnd(s, from(i), C) + 1, Space) + 1, <<"dot">>)
        hits == {i \in 1..Len(s) : ok(i)}
    IN  IF hits = {} THEN <<>> ELSE grp(SetMin(hits))

\* categoryPatterns[2]: /·\s*([..]+)\s*$/m : the run ends a line, white space
\* aside ($ with the m flag holds at the end and before a line break)
CategoryMatch3(s) ==
    LET from(i) == RunEnd(s, i + 1, Space) + 1
        e(i) == RunEnd(s, from(i), Japanese)
        w(i) == RunEnd(s, e(i) + 1, Space)
        ok(i) == /\ s[i] = "dot"
                 /\ e(i) >= from(i)
                 /\ \/ w(i) = Len(s)
                    \/ \E k \in (e(i) + 1)..w(i) : s[k] = "\n"
        hits == {i \in 1..Len(s) : ok(i)}
    IN  IF hits = {} THEN <<>> ELSE Sub(s, from(SetMin(hits)), e(SetMin(hits)))

\* catMatch[1].length >= 2 && catMatch[1].length <= 20 && !/^[\d\s·]+$/.test(..)
CategoryAccepted(g) ==
    /\ Len(g) >= 2
    /\ Len(g) <= 20
    /\ ~(\A k \in 1..Len(g) : g[k] \in Digits \cup Space \cup {"dot"})

\* for (const pattern of categoryPatterns) { ... break; } ; default 'Unknown'
ListCategory(text) ==
    IF CategoryAccepted(CategoryMatch1(text)) THEN Trim(CategoryMatch1(text))
    ELSE IF CategoryAccepted(CategoryMatch2(text)) THEN Trim(CategoryMatch2(text))
    ELSE IF CategoryAccepted(CategoryMatch3(text)) THEN Trim(CategoryMatch3(text))
    ELSE Unknown

\* rawName.search(pattern) > 0 ? rawName.substring(0, pos) : rawName, with
\* the 1-based position p of the first match (0: none)
CutBefore(s, p) == IF p > 1 THEN Sub(s, 1, p - 1) ELSE s
FirstPos(S) == IF S = {} THEN 0 ELSE SetMin(S)

\* the name: the aria-label when there is one, else the first line up to a
\* rating, a '·' or a currency sign; 'Unknown' when nothing is left
ListName(aria, lines) ==
    IF Trim(aria) # <<>> THEN Trim(aria)
    ELSE LET n0 == lines[1]
             n1 == CutBefore(n0, FirstPos({i \in 1..Len(n0) : RatingAt(n0, i)}))
             n2 == CutBefore(n1, IndexOf(n1, <<"dot">>))
             n3 == CutBefore(n2, FirstPos({i \in 1..Len(n2) : n2[i] \in Yen}))
         IN  IF Trim(n3) = <<>> THEN Unknown ELSE Trim(n3)

\* text.match(/"([^"]+)"/), with '★d ' put before it when /★(\d)/ occurs
\* before the first quote of the text
ListReview(text) ==
    LET Q == "\""
        close(i) == FirstPos({j \in (i + 1)..Len(text) : text[j] = Q})
        hits == {i \in 1..Len(text) : text[i] = Q /\ close(i) > i + 1}
        before == Sub(text, 1, IndexOf(text, <<Q>>) - 1)
        stars == {i \in 1..(Len(before) - 1) : before[i] = "star" /\ before[i + 1] \in Digits}
    IN  IF hits = {} THEN <<>>
        ELSE LET body == Trim(Sub(text, SetMin(hits) + 1, close(SetMin(hits)) - 1))
             IN  IF stars # {}
                 THEN <<"star", before[SetMin(stars) + 1], " ">> \o body
                 ELSE body

(***************************************************************************)
(* extractBasicList: one listing link, the batch, the removal of           *)
(* duplicates                                                              *)
(*   A link of the feed is [href, aria, text, fault]: href 0 stands for a  *)
(*   missing href attribute; fault "href" for getAttribute('href')         *)
(*   throwing, "text" for both reads of the text failing.                  *)
(***************************************************************************)
ListTextLen == 300

\* the text the fields are parsed from: text + '\n' + ariaLabel
FullText(link) == IF link.aria # <<>> THEN link.text \o <<"\n">> \o link.aria ELSE link.text

\* whether the item is skipped with errorCount++
LinkSkipped(link) ==
    \/ link.fault = "href"
    \/ link.href = 0
    \/ link.fault = "text"
    \/ Trim(FullText(link)) = <<>>
    \/ SplitTrim(FullText(link), "\n") = <<>>

\* results.push({ name, rating, reviews, url, category, budget, review, listText })
ParseLink(link) ==
    LET text == FullText(link)
    IN  [name     |-> ListName(link.aria, SplitTrim(text, "\n")),
         rating   |-> ListRating(text),
         reviews  |-> ListReviews(text),
         url      |-> link.href,
         category |-> ListCategory(text),
         budget   |-> ListBudget(text),
         review   |-> ListReview(text),
         listText |-> Sub(text, 1, IF Len(text) < ListTextLen THEN Len(text) ELSE ListTextLen)]

\* the for loop over linkElements: <<results, errorCount>>
RECURSIVE ParseLinksAborting(_)
ParseLinksAborting(links) ==
    IF links = <<>> THEN <<<<>>, 0>>
    ELSE IF LinkSkipped(Head(links)) THEN <<<<>>, 1>>
    ELSE LET rest == ParseLinksAborting(Tail(links))
         IN  <<<<ParseLink(Head(links))>> \o rest[1], rest[2]>>

RECURSIVE ParseLinks(_)
ParseLinks(links) ==
    IF links = <<>> THEN <<<<>>, 0>>
    ELSE LET rest == ParseLinks(Tail(links))
         IN  IF LinkSkipped(Head(links)) THEN <<rest[1], rest[2] + 1>>
             ELSE <<<<ParseLink(Head(links))>> \o rest[1], rest[2]>>

\* if (!urlMap.has(item.url)) { urlMap.set(item.url, true); unique.push(item); }
RECURSIVE UniqueLast(_, _)
UniqueLast(results, seen) ==
    IF results = <<>> THEN <<>>
    ELSE LET item == Last(results)
             rest == UniqueLast(Sub(results, 1, Len(results) - 1), seen \cup {item.url})
         IN  IF item.url \in seen THEN rest ELSE Append(rest, item)

KeepAll(results, seen) == results

RECURSIVE Unique(_, _)
Unique(results, seen) ==
    IF results = <<>> THEN <<>>
    ELSE IF Head(results).url \in seen THEN Unique(Tail(results), seen)
    ELSE <<Head(results)>> \o Unique(Tail(results), seen \cup {Head(results).url})

\* extractBasicList(feedLocator) : <<unique, errorCount>>
ExtractBasicList(links) == <<Unique(ParseLinks(links)[1], {}), ParseLinks(links)[2]>>

(***************************************************************************)
(* Numbers of JavaScript that may be NaN or null                           *)
(***************************************************************************)
\* parseInt(x) || 0 , parseFloat(x) || 0 for a number x
OrZero(x) == IF x = NaN \/ x = Null THEN 0 ELSE x
\* a < b, a > b : false as soon as one side is NaN ; null counts as 0
JsLess(a, b) == a # NaN /\ b # NaN /\ OrZero(a) < OrZero(b)
Positive(x) == x # NaN /\ x # Null /\ x > 0

\* terms.some(keyword => text.includes(keyword))
SomeIncluded(text, terms) == \E k \in 1..Len(terms) : Includes(text, terms[k])

\* budget.match(/[￥¥]([0-9,]+)/) and parseInt of the group without commas:
\* <<found, price>>
BudgetPrice(budget) ==
    LET C == Digits \cup {","}
        hits == {i \in 1..Len(budget) : budget[i] \in Yen /\ RunEnd(budget, i + 1, C) >= i + 1}
    IN  IF hits = {} THEN <<FALSE, 0>>
        ELSE <<TRUE, ParseInt(Without(Sub(budget, SetMin(hits) + 1,
                                          RunEnd(budget, SetMin(hits) + 1, C)), {","}))>>

\* the budget range check shared by the pre-filter and checkFilters:
\* "min" / "max" when the price is out of range, "" otherwise
BudgetVerdict(budget, filters) ==
    IF (filters.budgetMin # Null \/ filters.budgetMax # Null) /\ budget # <<>> /\ BudgetPrice(budget)[1]
    THEN LET price == BudgetPrice(budget)[2]
         IN  IF filters.budgetMin # Null /\ JsLess(price, filters.budgetMin) THEN "min"
             ELSE IF filters.budgetMax # Null /\ JsLess(filters.budgetMax, price) THEN "max"
             ELSE ""
    ELSE ""

(***************************************************************************)
(* checkOpenAtTime(businessHours, targetTime, targetDays)                  *)
(***************************************************************************)
Youbi == <<"you", "nichi">>                \* the suffix of a day name
\* day.replace('曜日', '')
DayShort(day) ==
    LET p == IndexOf(day, Youbi)
    IN  IF p = 0 THEN day ELSE Sub(day, 1, p - 1) \o Sub(day, p + 2, Len(day))

\* /(\d{1,2})<sep>(\d{2})<end>/ at position i, sep one character and end a
\* possibly empty string: <<matched, minutes, position after the match>>
ClockAt(s, i, sep, end) ==
    LET two == /\ i + 4 <= Len(s)
               /\ s[i] \in Digits /\ s[i + 1] \in Digits /\ s[i + 2] = sep
               /\ s[i + 3] \in Digits /\ s[i + 4] \in Digits
               /\ At(s, i + 5, end)
        one == /\ i + 3 <= Len(s)
               /\ s[i] \in Digits /\ s[i + 1] = sep
               /\ s[i + 2] \in Digits /\ s[i + 3] \in Digits
               /\ At(s, i + 4, end)
    IN  IF two THEN <<TRUE, (10 * DigitVal(s[i]) + DigitVal(s[i + 1])) * 60
                            + 10 * DigitVal(s[i + 3]) + DigitVal(s[i + 4]), i + 5 + Len(end)>>
        ELSE IF one THEN <<TRUE, DigitVal(s[i]) * 60
                                 + 10 * DigitVal(s[i + 2]) + DigitVal(s[i + 3]), i + 4 + Len(end)>>
        ELSE <<FALSE, 0, i + 1>>

\* parseTime: the first hh:mm of the string in minutes, Null without one
ParseTime(timeStr) ==
    LET hits == {i \in 1..Len(timeStr) : ClockAt(timeStr, i, ":", <<>>)[1]}
    IN  IF hits = {} THEN Null ELSE ClockAt(timeStr, SetMin(hits), ":", <<>>)[2]

\* timeStr.match(/(\d{1,2})時(\d{2})分/g): the matches from left to right
RECURSIVE ClockMatches(_, _)
ClockMatches(s, i) ==
    IF i > Len(s) THEN <<>>
    ELSE LET m == ClockAt(s, i, "ji", <<"fun">>)
         IN  IF m[1] THEN <<m[2]>> \o ClockMatches(s, m[3]) ELSE ClockMatches(s, i + 1)

\* parseBusinessTime: <<found, open, close>> from the first two matches
ParseBusinessTime(timeStr) ==
    LET ms == ClockMatches(timeStr, 1)
    IN  IF Len(ms) >= 2 THEN <<TRUE, ms[1], ms[2]>> ELSE <<FALSE, 0, 0>>

\* whether the window contains the target time; close <= open spans midnight
WindowOpenNoWrap(open, close, t) == t >= open /\ t < close
WindowOpen(open, close, t) ==
    IF close > open THEN t >= open /\ t < close
    ELSE t >= open \/ t < close

\* whether the segment reports the target time as open
SegmentOpen(segment, t, targetDays) ==
    LET colon == IndexOf(segment, <<":">>)
        dayPart == Sub(segment, 1, colon - 1)
        timePart == Sub(segment, colon + 1, Len(segment))
        biz == ParseBusinessTime(timePart)
    IN  /\ colon # 0
        /\ Len(targetDays) > 0 =>
               \E k \in 1..Len(targetDays) : Includes(dayPart, DayShort(targetDays[k]))
        /\ biz[1]
        /\ WindowOpen(biz[2], biz[3], t)

\* return { passed: false, reason: `${targetTime}..` } with an empty reason
CheckOpenAtTimeSilent(businessHours, targetTime, targetDays) ==
    LET t == ParseTime(targetTime)
        segments == Split(businessHours, "/")
    IN  IF t = Null THEN [passed |-> TRUE, reason |-> ""]
        ELSE IF \E k \in 1..Len(segments) : SegmentOpen(Trim(segments[k]), t, targetDays)
             THEN [passed |-> TRUE, reason |-> ""]
             ELSE [passed |-> FALSE, reason |-> ""]

CheckOpenAtTime(businessHours, targetTime, targetDays) ==
    LET t == ParseTime(targetTime)
        segments == Split(businessHours, "/")
    IN  IF t = Null THEN [passed |-> TRUE, reason |-> ""]
        ELSE IF \E k \in 1..Len(segments) : SegmentOpen(Trim(segments[k]), t, targetDays)
             THEN [passed |-> TRUE, reason |-> ""]
             ELSE [passed |-> FALSE, reason |-> "not open at the time"]

(***************************************************************************)
(* getDetailsWithPage(page, url): the fields read from a detail page       *)
(*   A detail page is [nav, evalThrows, addressLabel, ratingLabel,         *)
(*   categoryText, lines]; nav is "first" when the first page.goto         *)
(*   succeeds, "second" when only the retry does, "fail" when both throw.  *)
(***************************************************************************)
KenNoKuchikomi == <<"ken", "no", "ku", "chi", "ko", "mi2">>
LocalGuide == <<"ro", "cho", "ka", "ru", "ga", "i2", "do2">>
PerPerson == <<"1", " ", "nin", "a2", "ta", "ri">>
AddressPrefix == <<"juu", "sho", ":", " ">>
Eigyou == <<"ei", "gyou">>
HoursLen == 100

\* s.replace(t, '') : s without the first occurrence of t
RemoveFirst(s, t) ==
    LET p == IndexOf(s, t)
    IN  IF p = 0 THEN s ELSE Sub(s, 1, p - 1) \o Sub(s, p + Len(t), Len(s))

\* pageData.ratingLabel?.match(/([0-9]\.[0-9])/) ; parseFloat ; 0 without
DetailRating(label) ==
    LET hits == {i \in 1..(Len(label) - 2) :
                    label[i] \in Digits /\ label[i + 1] = "." /\ label[i + 2] \in Digits}
    IN  IF hits = {} THEN 0
        ELSE 10 * DigitVal(label[SetMin(hits)]) + DigitVal(label[SetMin(hits) + 2])

\* line.match(/([0-9,]+)\s*件のクチコミ/) : <<found, count>>
DetailReviewsOfLine(line) == CountBeforeWord(line, {KenNoKuchikomi})

\* the first line that names a review count and is not a local guide's
RECURSIVE DetailReviews(_)
DetailReviews(lines) ==
    IF lines = <<>> THEN 0
    ELSE IF /\ Includes(Head(lines), KenNoKuchikomi)
            /\ ~Includes(Head(lines), LocalGuide)
            /\ DetailReviewsOfLine(Head(lines))[1]
         THEN DetailReviewsOfLine(Head(lines))[2]
         ELSE DetailReviews(Tail(lines))

\* line.match(/￥[0-9,]+～[0-9,]+|¥[0-9,]+～[0-9,]+/) ; '' without a match
RangeBudget(line) ==
    LET C == Digits \cup {","}
        e1(i) == RunEnd(line, i + 1, C)
        e2(i) == RunEnd(line, e1(i) + 2, C)
        ok(i) == /\ line[i] \in Yen /\ e1(i) >= i + 1
                 /\ e1(i) + 1 <= Len(line) /\ line[e1(i) + 1] = "tilde"
                 /\ e2(i) >= e1(i) + 2
        hits == {i \in 1..Len(line) : ok(i)}
    IN  IF hits = {} THEN <<>> ELSE Sub(line, SetMin(hits), e2(SetMin(hits)))

\* the loop over the lines for the budget, from the budget found so far
RECURSIVE DetailBudget(_, _)
DetailBudget(lines, budget) ==
    IF lines = <<>> THEN budget
    ELSE LET line == Head(lines)
         IN  IF \E k \in 1..Len(line) : line[k] \in Yen
             THEN IF Includes(line, PerPerson) /\ RangeBudget(line) # <<>>
                  THEN RangeBudget(line)
                  ELSE IF budget = <<>>
                       THEN DetailBudget(Tail(lines), RangeBudget(line))
                       ELSE DetailBudget(Tail(lines), budget)
             ELSE DetailBudget(Tail(lines), budget)

\* the first line with the word "open" and ':00' or the hour character
RECURSIVE DetailHours(_)
DetailHours(lines) ==
    IF lines = <<>> THEN <<>>
    ELSE IF /\ Includes(Head(lines), Eigyou)
            /\ (Includes(Head(lines), <<":", "0", "0">>) \/ Includes(Head(lines), <<"ji">>))
         THEN Sub(Head(lines), 1, IF Len(Head(lines)) < HoursLen THEN Len(Head(lines)) ELSE HoursLen)
         ELSE DetailHours(Tail(lines))

\* the value returned when both navigations did not throw
GetDetailsWithPage(page) ==
    IF page.evalThrows
    THEN [address |-> <<>>, category |-> Unknown, budget |-> <<>>, businessHours |-> <<>>,
          detailRating |-> 0, detailReviews |-> 0]
    ELSE [address       |-> IF page.addressLabel # <<>>
                            THEN Trim(RemoveFirst(page.addressLabel, AddressPrefix)) ELSE <<>>,
          category      |-> IF Trim(page.categoryText) # <<>>
                            THEN Trim(page.categoryText) ELSE Unknown,
          budget        |-> DetailBudget(page.lines, <<>>),
          businessHours |-> DetailHours(page.lines),
          detailRating  |-> DetailRating(page.ratingLabel),
          detailReviews |-> DetailReviews(page.lines)]

(***************************************************************************)
(* processChunk: the merge of a target with its details                    *)
(***************************************************************************)
\* details.detailRating > 0 ? details.detailRating : target.rating
PreferList(detail, list) == IF Positive(list) THEN list ELSE detail
PreferDetail(detail, list) == IF Positive(detail) THEN detail ELSE list

\* { ...target, ...details, rating, reviews, category, budget, review }
\* without detailRating, detailReviews and listText
Merge(target, details) ==
    [name          |-> target.name,
     url           |-> target.url,
     address       |-> details.address,
     businessHours |-> details.businessHours,
     rating        |-> PreferDetail(details.detailRating, target.rating),
     reviews       |-> PreferDetail(details.detailReviews, target.reviews),
     category      |-> IF target.category # <<>> /\ target.category # Unknown
                       THEN target.category
                       ELSE IF details.category # <<>> THEN details.category ELSE Unknown,
     budget        |-> IF target.budget # <<>> THEN target.budget ELSE details.budget,
     review        |-> target.review]

(***************************************************************************)
(* checkFilters(item, minReviews, filters)                                 *)
(***************************************************************************)
\* filters.category.split(',').map(s => s.trim().toLowerCase()).filter(s => s)
Keywords(s) == SplitTrim(s, ",")

\* for (const day of filters.days) { ... } : whether an open day was found
DaysOpen(hours, days) ==
    LET lower == ToLower(hours)
        closedMarker == Includes(lower, <<"tei", "kyuu">>) \/ Includes(lower, <<"kyuu", "mi">>)
    IN  \E k \in 1..Len(days) :
            /\ ~(closedMarker /\ Includes(hours, DayShort(days[k])))
            /\ Includes(hours, DayShort(days[k]))

\* if (minReviews > 0) { const rev = parseInt(item.reviews) || 0; if (rev < minReviews) ..
NeverTooFew(reviews, minReviews) == FALSE
TooFewReviews(reviews, minReviews) == minReviews > 0 /\ OrZero(reviews) < minReviews

CheckFilters(item, minReviews, filters) ==
    IF TooFewReviews(item.reviews, minReviews)
    THEN [passed |-> FALSE, reason |-> "too few reviews"]
    ELSE IF /\ Keywords(filters.address) # <<>>
            /\ ~SomeIncluded(item.address, Keywords(filters.address))
    THEN [passed |-> FALSE, reason |-> "address does not match"]
    ELSE IF /\ Keywords(ToLower(filters.category)) # <<>>
            /\ ~SomeIncluded(ToLower(item.category), Keywords(ToLower(filters.category)))
    THEN [passed |-> FALSE, reason |-> "category does not match"]
    ELSE IF BudgetVerdict(item.budget, filters) = "min"
    THEN [passed |-> FALSE, reason |-> "budget below the minimum"]
    ELSE IF BudgetVerdict(item.budget, filters) = "max"
    THEN [passed |-> FALSE, reason |-> "budget above the maximum"]
    ELSE IF Len(filters.days) > 0 /\ item.businessHours # <<>>
            /\ ~DaysOpen(item.businessHours, filters.days)
    THEN [passed |-> FALSE, reason |-> "closed on the days asked for"]
    ELSE IF filters.hours # <<>> /\ item.businessHours # <<>>
            /\ ~CheckOpenAtTime(item.businessHours, filters.hours, filters.days).passed
    THEN [passed |-> FALSE,
          reason |-> CheckOpenAtTime(item.businessHours, filters.hours, filters.days).reason]
    ELSE [passed |-> TRUE, reason |-> ""]

(***************************************************************************)
(* search(): the pre-filter                                                *)
(***************************************************************************)
\* if (minReviews > 0 && rev > 0 && rev < minReviews) with rev = parseInt(c.reviews) || 0
BelowMinReviews(reviews, minReviews) == minReviews > 0 /\ OrZero(reviews) < minReviews
KnownBelowMinReviews(reviews, minReviews) ==
    minReviews > 0 /\ OrZero(reviews) > 0 /\ OrZero(reviews) < minReviews

\* whether the loop over the candidates pushes c to targets
PreFilterPasses(c, minRating, minReviews, filters) ==
    LET r == OrZero(c.rating)
        words == Keywords(ToLower(filters.category))
    IN  /\ ~(minRating > 0 /\ r < minRating)
        /\ ~KnownBelowMinReviews(c.reviews, minReviews)
        /\ ~(/\ words # <<>>
             /\ ~SomeIncluded(ToLower(c.category), words)
             /\ ~SomeIncluded(ToLower(c.listText), words))
        /\ BudgetVerdict(c.budget, filters) = ""

RECURSIVE PreFilter(_, _, _, _)
PreFilter(cands, minRating, minReviews, filters) ==
    IF cands = <<>> THEN <<>>
    ELSE IF PreFilterPasses(Head(cands), minRating, minReviews, filters)
         THEN <<Head(cands)>> \o PreFilter(Tail(cands), minRating, minReviews, filters)
         ELSE PreFilter(Tail(cands), minRating, minReviews, filters)

(***************************************************************************)
(* search(): the plan of the detail stage                                  *)
(***************************************************************************)
Min2(a, b) == IF a < b THEN a ELSE b
CeilDiv(a, b) == (a + b - 1) \div b

\* const numTabs = Math.min(Math.ceil(targets.length / maxItemsPerTab), 5)
NumTabsUncapped(n) == CeilDiv(n, maxItemsPerTab)
NumTabs(n) == Min2(CeilDiv(n, maxItemsPerTab), maxTabs)

\* for (i = 0; i < targets.length; i += maxItemsPerTab)
\*     chunks.push(targets.slice(i, i + maxItemsPerTab))
Chunks(ts) ==
    [k \in 1..CeilDiv(Len(ts), maxItemsPerTab) |->
        Sub(ts, (k - 1) * maxItemsPerTab + 1, Min2(k * maxItemsPerTab, Len(ts)))]

\* chunks.slice(i, i + numTabs): the numbers (from 1) of the chunks of the
\* round that starts at i
RoundAll(i, numTabs, nChunks) == (i + 1)..nChunks
Round(i, numTabs, nChunks) == (i + 1)..Min2(i + numTabs, nChunks)

\* pages[pageIndex % pages.length] for the chunk idx of the round (from 0)
PageOfChunkPrimary(idx, nPages) == 0
PageOfChunk(idx, nPages) == idx % nPages

(***************************************************************************)
(* processChunk: one item                                                  *)
(***************************************************************************)
NoResult == [name |-> <<>>, url |-> 0, address |-> <<>>, businessHours |-> <<>>, rating |-> 0,
             reviews |-> 0, category |-> <<>>, budget |-> <<>>, review |-> <<>>]

\* getDetailsWithPage: try { await page.goto(..) } catch (e) { await page.goto(..) }
\* the number of page.goto calls, and the waits between them: the catch
\* calls page.goto again at once
Gotos(page) == IF page.nav = "first" THEN 1 ELSE 2
NavWaits(page) == <<>>

\* the entry pushed to results for target, given what its detail page does;
\* gotos and navWaits record the navigation, they are not fields of the entry
ProcessItem(target, page, minReviews, filters) ==
    IF page.nav = "fail"
    THEN [result |-> NoResult, passed |-> FALSE, reason |-> "", error |-> "page.goto: Timeout",
          name |-> target.name, gotos |-> Gotos(page), navWaits |-> NavWaits(page)]
    ELSE LET merged == Merge(target, GetDetailsWithPage(page))
             f == CheckFilters(merged, minReviews, filters)
         IN  [result |-> merged, passed |-> f.passed, reason |-> f.reason, error |-> "",
              name |-> target.name, gotos |-> Gotos(page), navWaits |-> NavWaits(page)]

(***************************************************************************)
(* search(): the aggregation of a round and the final sort                 *)
(***************************************************************************)
CountErrorAsFiltered(acc, item) ==
    IF item.error = "" /\ item.passed
    THEN [acc EXCEPT !.processed = @ + 1, !.success = @ + 1,
                     !.finalResults = Append(@, item.result)]
    ELSE [acc EXCEPT !.processed = @ + 1, !.filteredOut = @ + 1]

CountErrorUncounted(acc, item) ==
    IF item.error # ""
    THEN [acc EXCEPT !.fail = @ + 1]
    ELSE IF item.passed
    THEN [acc EXCEPT !.processed = @ + 1, !.success = @ + 1,
                     !.finalResults = Append(@, item.result)]
    ELSE [acc EXCEPT !.processed = @ + 1, !.filteredOut = @ + 1]

\* the body of the loop over the items of the chunk results
Count(acc, item) ==
    IF item.error # ""
    THEN [acc EXCEPT !.processed = @ + 1, !.fail = @ + 1]
    ELSE IF item.passed
    THEN [acc EXCEPT !.processed = @ + 1, !.success = @ + 1,
                     !.finalResults = Append(@, item.result)]
    ELSE [acc EXCEPT !.processed = @ + 1, !.filteredOut = @ + 1]

RECURSIVE CountAll(_, _)
CountAll(acc, items) ==
    IF items = <<>> THEN acc ELSE CountAll(Count(acc, Head(items)), Tail(items))

\* await Promise.all(promises): the chunk results in the order of the
\* promises, whatever the order in which they settled
RECURSIVE Concat(_, _)
Concat(res, order) ==
    IF order = <<>> THEN <<>> ELSE res[Head(order)] \o Concat(res, Tail(order))
InOrder(S) == [k \in 1..Cardinality(S) |-> SetMin(S) + k - 1]
BatchResultsAsSettled(res, batch, settled) == Concat(res, settled)
BatchResults(res, batch, settled) == Concat(res, InOrder(batch))

\* Math.round((processedCount / targets.length) * 100)
PercentTruncated(processed, total) == (100 * processed) \div total
Percent(processed, total) == (200 * processed + total) \div (2 * total)

\* the comparator of finalResults.sort: negative when a goes before b
CompareByRatingOnly(a, b) == OrZero(b.rating) - OrZero(a.rating)
Compare(a, b) ==
    IF OrZero(b.rating) # OrZero(a.rating)
    THEN OrZero(b.rating) - OrZero(a.rating)
    ELSE OrZero(b.reviews) - OrZero(a.reviews)

\* Array.prototype.sort is stable: x goes before the first element that the
\* comparator puts after it, behind its equals
InsertSorted(sorted, x) ==
    LET later == {k \in 1..Len(sorted) : Compare(x, sorted[k]) < 0}
        at == IF later = {} THEN Len(sorted) + 1 ELSE SetMin(later)
    IN  Sub(sorted, 1, at - 1) \o <<x>> \o Sub(sorted, at, Len(sorted))

RECURSIVE SortFrom(_, _)
SortFrom(sorted, rest) ==
    IF rest = <<>> THEN sorted ELSE SortFrom(InsertSorted(sorted, Head(rest)), Tail(rest))
SortResults(list) == SortFrom(<<>>, list)

(***************************************************************************)
(* What a run is given: the arguments of search(), the links of the feed   *)
(* and the detail pages                                                    *)
(***************************************************************************)
NoFilters == [address |-> <<>>, category |-> <<>>, budgetMin |-> Null, budgetMax |-> Null,
              days |-> <<>>, hours |-> <<>>, maxItems |-> 0]
NoRequest == [minRating |-> 0, minReviews |-> 0, filters |-> NoFilters]

Requests ==
    { NoRequest,
      [NoRequest EXCEPT !.filters = [NoFilters EXCEPT !.maxItems = 1]],
      [NoRequest EXCEPT !.minRating = 46],
      [NoRequest EXCEPT !.minReviews = 10],
      [NoRequest EXCEPT !.filters =
          [NoFilters EXCEPT !.category = <<"ra", "cho", "me", "nn", ",", " ", "C", "A", "F", "E">>,
                            !.budgetMax = 1500]],
      [NoRequest EXCEPT !.filters =
          [NoFilters EXCEPT !.address = <<"shin", "juku">>,
                            !.days = << <<"getsu", "you", "nichi">> >>,
                            !.hours = <<"2", "3", ":", "0", "0">>]] }

\* the kinds of listing links: aria-label, text, and what fails
Kind(aria, text) == [aria |-> aria, text |-> text, fault |-> "none", noHref |-> FALSE]
Kinds ==
    << Kind(<<>>, <<"A", "4", ".", "2", "(", "1", "0", ")">>),
       Kind(<<>>, <<"B", "4", ".", "8", "(", "2", ")">>),
       Kind(<<>>, <<"C", "4", ".", "2", "(", "5", "0", ")">>),
       Kind(<<>>, <<"D", "4", ".", "2", " ", "(", "1", "0", ")">>),
       Kind(<<>>, <<"E", "(", ".", ".", ".", ")">>),
       [Kind(<<>>, <<"F", "3", ".", "0">>) EXCEPT !.noHref = TRUE],
       Kind(<<"G">>, <<>>),
       Kind(<<>>, <<"H", "3", ".", "9", "(", "7", ")", "dot", "YEN", "1", ",", "0", "0", "0",
                    "tilde", "2", ",", "0", "0", "0", "ra", "cho", "me", "nn">>) >>
GoodKinds == <<Kinds[1], Kinds[2], Kinds[3], Kinds[4], Kinds[5], Kinds[7], Kinds[8]>>

\* a feed of n links: link i is of the kind i + shift of the cycle, and its
\* href is i, or with dup one of two urls
GenFeed(n, kinds, shift, dup) ==
    [i \in 1..n |->
        LET k == kinds[((i - 1 + shift) % Len(kinds)) + 1]
        IN  [href  |-> IF k.noHref THEN 0 ELSE IF dup THEN ((i - 1) % 2) + 1 ELSE i,
             aria  |-> k.aria, text |-> k.text, fault |-> k.fault]]

\* the kinds of detail pages
NoPage == [nav |-> "first", evalThrows |-> FALSE, addressLabel |-> <<>>, ratingLabel |-> <<>>,
           categoryText |-> <<>>, lines |-> <<>>]
Pages ==
    << NoPage,
       [NoPage EXCEPT !.categoryText = <<"B", "a", "r">>,
                      !.lines = << <<"getsu", "you", "nichi", " ", "tei", "kyuu", "nichi">> >>],
       [NoPage EXCEPT !.evalThrows = TRUE,
                      !.ratingLabel = <<"4", ".", "5">>],
       [NoPage EXCEPT !.nav = "second",
                      !.addressLabel = <<"juu", "sho", ":", " ", "shin", "juku", "1">>,
                      !.ratingLabel = <<"4", ".", "5", " ">>,
                      !.categoryText = <<"C", "a", "f", "e", " ">>,
                      !.lines = << <<"1", "2", "3", " ", "ken", "no", "ku", "chi", "ko", "mi2">>,
                                   <<"YEN", "1", ",", "0", "0", "0", "tilde", "2", ",", "0", "0", "0">>,
                                   <<"getsu", ":", "1", "8", "ji", "0", "0", "fun", "tilde",
                                     "5", "ji", "0", "0", "fun", " ", "ei", "gyou">> >>],
       [NoPage EXCEPT !.ratingLabel = <<"9", ".", "9">>,
                      !.lines = << <<"ro", "cho", "ka", "ru", "ga", "i2", "do2", " ", "4", "5",
                                     "ken", "no", "ku", "chi", "ko", "mi2">>,
                                   <<",", "ken", "no", "ku", "chi", "ko", "mi2">> >>],
       [NoPage EXCEPT !.nav = "fail"] >>

NoWeb == [links |-> <<>>, pshift |-> 0]
BigSizes == {maxItemsPerTab * maxTabs - 2, maxItemsPerTab * maxTabs + 1}

\* the webs a run may meet: every small feed with every assignment of page
\* kinds, and for the request without filters the feeds of 13 and 16 links
Webs(r) ==
    { [links |-> GenFeed(n, Kinds, shift, dup), pshift |-> ps] :
          n \in 0..MaxFeed, shift \in 0..(Len(Kinds) - 1), dup \in BOOLEAN,
          ps \in 0..(Len(Pages) - 1) }
    \cup
    (IF r = NoRequest
     THEN { [links |-> GenFeed(n, GoodKinds, 0, FALSE), pshift |-> ps] :
                n \in BigSizes, ps \in 0..(Len(Pages) - 1) }
     ELSE {})

\* the detail page of a url
PageOf(w, url) == Pages[((url + w.pshift) % Len(Pages)) + 1]

(***************************************************************************)
(* retryOperation(fn, operationName, maxRetries)                           *)
(*   st: "idle"     no call running                                        *)
(*       "inFn"     awaiting fn()                                          *)
(*       "backoff"  awaiting page.waitForTimeout(delay)                    *)
(*       "returned" / "thrown"  the call has ended                         *)
(*   calls, outcomes and delays record what the call did: the number of    *)
(*   invocations of fn, what each invocation ended with, and the waits.    *)
(***************************************************************************)
RetryIdle ==
    [st |-> "idle", op |-> "none", max |-> 0, attempt |-> 0, calls |-> 0,
     lastError |-> "undefined", result |-> "undefined", thrown |-> "undefined",
     outcomes |-> <<>>, delays |-> <<>>]

\* let lastError; for (attempt = 1; attempt <= maxRetries; ...) { fn() ...
\* and, when the loop body never runs, throw lastError.
RetryBegin(op, n) ==
    IF 1 <= n
    THEN [RetryIdle EXCEPT !.st = "inFn", !.op = op, !.max = n, !.attempt = 1, !.calls = 1]
    ELSE [RetryIdle EXCEPT !.st = "thrown", !.op = op, !.max = n, !.attempt = 1]

\* catch (error) { lastError = error; ... }
KeepFirstError(r, e) == IF r.lastError = "undefined" THEN e ELSE r.lastError
CaughtError(r, e) == e

\* const delay = this.retryDelay * attempt
BackoffExponential(attempt) == retryDelay * (2 ^ (attempt - 1))
BackoffDelay(attempt) == retryDelay * attempt

\* const result = await fn(); return result;
RetryFnResolve ==
    /\ retry.st = "inFn"
    /\ \E v \in Values :
        retry' = [retry EXCEPT !.st = "returned", !.result = v,
                               !.outcomes = Append(@, [ok |-> TRUE, val |-> v])]

\* fn() rejected: the catch block, and the end of the loop when it was the
\* last attempt (attempt++ ; attempt <= maxRetries fails ; throw lastError).
RetryFnReject ==
    /\ retry.st = "inFn"
    /\ \E e \in Errors :
        LET r1 == [retry EXCEPT !.lastError = CaughtError(retry, e),
                                !.outcomes = Append(@, [ok |-> FALSE, val |-> e])]
        IN  retry' = IF r1.attempt < r1.max
                     THEN [r1 EXCEPT !.st = "backoff",
                                     !.delays = Append(@, BackoffDelay(r1.attempt))]
                     ELSE [r1 EXCEPT !.st = "thrown", !.attempt = @ + 1,
                                     !.thrown = r1.lastError]

\* the wait is over: attempt++, the loop test holds, fn is invoked again
RetryBackoffDone ==
    /\ retry.st = "backoff"
    /\ retry' = [retry EXCEPT !.st = "inFn", !.attempt = @ + 1, !.calls = @ + 1]

RetryStep ==
    /\ \/ RetryFnResolve
       \/ RetryFnReject
       \/ RetryBackoffDone
    /\ UNCHANGED <<probe, pc, req, scroll, candidates, errorCount, targets, sched, web, events, ret>>

(***************************************************************************)
(* search(address, keyword, minRating, minReviews, filters)                *)
(*   pc: "start", "goto" (retryOperation of the navigation), "query"       *)
(*   (retryOperation of the query), "waitFeed", "scroll", "extract",       *)
(*   "openTabs", "round" (inside Promise.all), "roundDelay", "closeTabs",  *)
(*   "done"                                                                *)
(***************************************************************************)
Running == [kind |-> "running", list |-> <<>>, error |-> <<>>]
NoProbe == [fn |-> "none"]
Returned(list) == [kind |-> "returned", list |-> list, error |-> <<>>]
ReturnedEmpty(message) == [kind |-> "returned", list |-> <<>>, error |-> <<>>]
\* throw new Error(`検索エラー: ${error.message}`)
Raised(message) == [kind |-> "raised", list |-> <<>>, error |-> <<"search error", message>>]

NoScroll == [i |-> 0, previousHeight |-> 0, noChangeCount |-> 0]
NoSched ==
    [numTabs |-> 0, nPages |-> 0, open |-> {}, chunks |-> <<>>, i |-> 0, pos |-> <<>>,
     page |-> <<>>, res |-> <<>>, settled |-> <<>>, began |-> {}, ended |-> {}, rounds |-> 0, closeIdx |-> 0,
     closeCalls |-> {}, released |-> {},
     processed |-> 0, success |-> 0, fail |-> 0, filteredOut |-> 0, finalResults |-> <<>>]

\* reportProgress(stage, data)
Ev(stage) == [stage |-> stage, current |-> Null, total |-> Null, percent |-> Null,
              matched |-> Null, filtered |-> Null, failed |-> Null, original |-> Null]

Init ==
    /\ retry = RetryIdle
    /\ pc = "start"
    /\ req \in Requests
    /\ scroll = NoScroll
    /\ candidates = <<>>
    /\ errorCount = 0
    /\ targets = <<>>
    /\ sched = NoSched
    /\ web = NoWeb
    /\ events = <<>>
    /\ ret = Running
    /\ probe = NoProbe

\* reportProgress('opening') ; await this.retryOperation(goto ..)
SearchCall ==
    /\ pc = "start"
    /\ pc' = "goto"
    /\ events' = Append(events, Ev("opening"))
    /\ retry' = RetryBegin("goto", maxRetries)
    /\ UNCHANGED <<probe, req, scroll, candidates, errorCount, targets, sched, web, ret>>

\* the navigation is done: reportProgress('searching') ; retryOperation(query)
GotoDone ==
    /\ pc = "goto" /\ retry.st = "returned"
    /\ pc' = "query"
    /\ events' = Append(events, Ev("searching"))
    /\ retry' = RetryBegin("query", maxRetries)
    /\ UNCHANGED <<probe, req, scroll, candidates, errorCount, targets, sched, web, ret>>

\* the query is submitted: reportProgress('waiting') ; await feed.waitFor(..)
QueryDone ==
    /\ pc = "query" /\ retry.st = "returned"
    /\ pc' = "waitFeed"
    /\ events' = Append(events, Ev("waiting"))
    /\ retry' = RetryIdle
    /\ UNCHANGED <<probe, req, scroll, candidates, errorCount, targets, sched, web, ret>>

\* retryOperation threw: the catch of search() throws the search error
RetryExhausted ==
    /\ pc \in {"goto", "query"} /\ retry.st = "thrown"
    /\ pc' = "done"
    /\ ret' = Raised(retry.thrown)
    /\ retry' = RetryIdle
    /\ UNCHANGED <<probe, req, scroll, candidates, errorCount, targets, sched, web, events>>

\* feed.waitFor resolves: reportProgress('scrolling') ; autoScroll(feed)
FeedVisible ==
    /\ pc = "waitFeed"
    /\ pc' = "scroll"
    /\ events' = Append(events, Ev("scrolling"))
    /\ scroll' = NoScroll
    /\ UNCHANGED <<probe, retry, req, candidates, errorCount, targets, sched, web, ret>>

\* feed.waitFor throws: return []
FeedTimeoutRaises ==
    /\ pc = "waitFeed"
    /\ pc' = "done"
    /\ ret' = Raised("feed not found")
    /\ UNCHANGED <<probe, retry, req, scroll, candidates, errorCount, targets, sched, web, events>>
FeedTimeout ==
    /\ pc = "waitFeed"
    /\ pc' = "done"
    /\ ret' = Returned(<<>>)
    /\ UNCHANGED <<probe, retry, req, scroll, candidates, errorCount, targets, sched, web, events>>

(***************************************************************************)
(* autoScroll(feedLocator), one iteration of its loop per step             *)
(*   What the iteration meets: "measureThrows" (the evaluate before the    *)
(*   inner try throws), "scrollThrows" (scrollBy or the wait throws),      *)
(*   "sentinel" (the end-of-list text is visible), "heightThrows" (the     *)
(*   evaluate after the scroll throws), or "height" with the new           *)
(*   scrollHeight (the sentinel not visible, or isVisible throwing).       *)
(***************************************************************************)
ScrollOutcomes ==
    {[kind |-> k, h |-> 0] : k \in {"measureThrows", "scrollThrows", "sentinel", "heightThrows"}}
    \cup {[kind |-> "height", h |-> h] : h \in 0..MaxHeight}

\* the locals after the iteration, for the outcomes that do not leave the loop
ScrollLocals(sc, o) ==
    IF o.kind = "height"
    THEN [i |-> sc.i + 1, previousHeight |-> o.h,
          noChangeCount |-> IF o.h = sc.previousHeight THEN sc.noChangeCount + 1 ELSE 0]
    ELSE [sc EXCEPT !.i = @ + 1]

\* whether the iteration is the last one
ScrollStopsUncapped(sc, o) ==
    \/ o.kind \in {"measureThrows", "sentinel"}
    \/ o.kind = "height" /\ o.h = sc.previousHeight /\ sc.noChangeCount + 1 >= noChangeLimit
ScrollStops(sc, o) ==
    \/ o.kind \in {"measureThrows", "sentinel"}
    \/ o.kind = "height" /\ o.h = sc.previousHeight /\ sc.noChangeCount + 1 >= noChangeLimit
    \/ sc.i + 1 >= maxScrollAttempts

\* after the loop: reportProgress('extracting') ; await extractBasicList(feed)
ScrollIteration ==
    /\ pc = "scroll"
    /\ \E o \in ScrollOutcomes :
          IF ScrollStops(scroll, o)
          THEN /\ pc' = "extract"
               /\ scroll' = NoScroll
               /\ events' = Append(events, Ev("extracting"))
          ELSE /\ pc' = "scroll"
               /\ scroll' = ScrollLocals(scroll, o)
               /\ events' = events
    /\ UNCHANGED <<probe, retry, req, candidates, errorCount, targets, sched, web, ret>>

(***************************************************************************)
(* search(): extraction, pre-filter and the plan of the detail stage       *)
(***************************************************************************)
\* const pages = [this.page] and the locals of the detail stage
Plan(ts) ==
    [NoSched EXCEPT !.numTabs = NumTabs(Len(ts)), !.nPages = 1, !.chunks = Chunks(ts)]

\* the promises of the round that starts at i are created: every chunk of
\* the round issues its first page.goto
Dispatch(sd, i) ==
    LET batch == Round(i, sd.numTabs, Len(sd.chunks))
    IN  [sd EXCEPT !.i = i,
                   !.pos = [c \in batch |-> 0],
                   !.page = [c \in batch |-> PageOfChunk(c - i - 1, sd.nPages)],
                   !.res = [c \in batch |-> <<>>],
                   !.settled = <<>>,
                   !.began = @ \cup batch,
                   !.rounds = @ + 1]

\* locator(..).all() throws: extractBasicList throws, and so does search()
ExtractThrows ==
    /\ pc = "extract"
    /\ pc' = "done"
    /\ ret' = Raised("list extraction error")
    /\ UNCHANGED <<probe, retry, req, scroll, candidates, errorCount, targets, sched, web, events>>

\* extractBasicList returns; the code up to the next await: the 'extracted'
\* event, the pre-filter and its events, the plan, and either the first
\* newPage() or the first round
Extract ==
    /\ pc = "extract"
    /\ \E w \in Webs(req) :
        LET ex == ExtractBasicList(w.links)
            ts == PreFilter(ex[1], req.minRating, req.minReviews, req.filters)
            e1 == Append(events, [Ev("extracted") EXCEPT !.total = Len(ex[1])])
            e2 == Append(e1, [Ev("prefiltering") EXCEPT !.total = Len(ex[1])])
            e3 == Append(e2, [Ev("prefiltered") EXCEPT !.total = Len(ts), !.original = Len(ex[1])])
        IN  /\ web' = w
            /\ candidates' = ex[1]
            /\ errorCount' = ex[2]
            /\ IF ex[1] = <<>>
               THEN /\ events' = e1
                    /\ targets' = <<>>
                    /\ sched' = sched
                    /\ ret' = Returned(<<>>)
                    /\ pc' = "done"
               ELSE IF ts = <<>>
               THEN /\ events' = e3
                    /\ targets' = ts
                    /\ sched' = sched
                    /\ ret' = Returned(<<>>)
                    /\ pc' = "done"
               ELSE /\ events' = e3
                    /\ targets' = ts
                    /\ ret' = ret
                    /\ IF NumTabs(Len(ts)) > 1
                       THEN /\ sched' = Plan(ts)
                            /\ pc' = "openTabs"
                       ELSE /\ sched' = Dispatch(Plan(ts), 0)
                            /\ pc' = "round"
    /\ UNCHANGED <<probe, retry, req, scroll>>

\* await this.context.newPage() resolves: pages.push(newPage) ; after the
\* last one the chunks are cut and the first round starts
OpenTab ==
    /\ pc = "openTabs"
    /\ LET sd == [sched EXCEPT !.nPages = @ + 1, !.open = @ \cup {sched.nPages}]
       IN  IF sd.nPages < sd.numTabs
           THEN /\ sched' = sd
                /\ pc' = "openTabs"
           ELSE /\ sched' = Dispatch(sd, 0)
                /\ pc' = "round"
    /\ UNCHANGED <<probe, retry, req, scroll, candidates, errorCount, targets, web, events, ret>>

\* await this.context.newPage() throws: search() throws
OpenTabThrows ==
    /\ pc = "openTabs"
    /\ pc' = "done"
    /\ ret' = Raised("newPage failed")
    /\ UNCHANGED <<probe, retry, req, scroll, candidates, errorCount, targets, sched, web, events>>

(***************************************************************************)
(* search(): the rounds of the detail stage                                *)
(*   sched.pos[c] is the number of items of chunk c that processChunk has  *)
(*   pushed to its results, sched.res[c] these results, sched.page[c] the  *)
(*   number of its page in pages (0 is this.page), sched.settled the       *)
(*   chunks of the round in the order their promises settled; began and    *)
(*   ended are the chunks whose processChunk has started and has returned. *)
(***************************************************************************)
\* processChunk(chunk c): the detail fetch of its next item ends; the item is
\* merged, filtered and pushed, and the fetch of the following item starts
ItemDoneBackwards(c) ==
    /\ pc = "round"
    /\ c \in DOMAIN sched.pos
    /\ sched.pos[c] < Len(sched.chunks[c])
    /\ LET t == sched.chunks[c][Len(sched.chunks[c]) - sched.pos[c]]
           item == ProcessItem(t, PageOf(web, t.url), req.minReviews, req.filters)
           last == sched.pos[c] + 1 = Len(sched.chunks[c])
       IN  sched' = [sched EXCEPT !.pos[c] = @ + 1,
                                  !.res[c] = Append(@, item),
                                  !.settled = IF last THEN Append(@, c) ELSE @,
                                  !.ended = IF last THEN @ \cup {c} ELSE @]
    /\ UNCHANGED <<probe, retry, pc, req, scroll, candidates, errorCount, targets, web, events, ret>>
ItemDone(c) ==
    /\ pc = "round"
    /\ c \in DOMAIN sched.pos
    /\ sched.pos[c] < Len(sched.chunks[c])
    /\ LET t == sched.chunks[c][sched.pos[c] + 1]
           item == ProcessItem(t, PageOf(web, t.url), req.minReviews, req.filters)
           last == sched.pos[c] + 1 = Len(sched.chunks[c])
       IN  sched' = [sched EXCEPT !.pos[c] = @ + 1,
                                  !.res[c] = Append(@, item),
                                  !.settled = IF last THEN Append(@, c) ELSE @,
                                  !.ended = IF last THEN @ \cup {c} ELSE @]
    /\ UNCHANGED <<probe, retry, pc, req, scroll, candidates, errorCount, targets, web, events, ret>>

\* the 'completed' event, the sort and the return of search()
Completed(sd) == [Ev("completed") EXCEPT !.total = Len(sd.finalResults),
                                         !.filtered = sd.filteredOut, !.failed = sd.fail]

\* Promise.all resolves: the results of the round are counted, the 'details'
\* event is reported, and the code runs to its next await or to its return
RoundJoin ==
    /\ pc = "round"
    /\ \A c \in DOMAIN sched.pos : sched.pos[c] = Len(sched.chunks[c])
    /\ LET acc == CountAll(sched, BatchResults(sched.res, DOMAIN sched.pos, sched.settled))
           sd == [acc EXCEPT !.pos = <<>>, !.page = <<>>, !.res = <<>>]
           ev == [Ev("details") EXCEPT !.current = sd.processed,
                                       !.total = Len(targets),
                                       !.percent = Percent(sd.processed, Len(targets)),
                                       !.matched = sd.success,
                                       !.filtered = sd.filteredOut]
       IN  IF sd.i + sd.numTabs < Len(sd.chunks)
           THEN /\ pc' = "roundDelay"
                /\ sched' = sd
                /\ events' = Append(events, ev)
                /\ ret' = ret
           ELSE IF sd.nPages > 1
           THEN /\ pc' = "closeTabs"
                /\ sched' = [sd EXCEPT !.closeIdx = 1]
                /\ events' = Append(events, ev)
                /\ ret' = ret
           ELSE /\ pc' = "done"
                /\ sched' = sd
                /\ events' = Append(Append(events, ev), Completed(sd))
                /\ ret' = Returned(SortResults(sd.finalResults))
    /\ UNCHANGED <<probe, retry, req, scroll, candidates, errorCount, targets, web>>

\* await this.page.waitForTimeout(300) is over: the next round starts
RoundDelayDone ==
    /\ pc = "roundDelay"
    /\ pc' = "round"
    /\ sched' = Dispatch(sched, sched.i + sched.numTabs)
    /\ UNCHANGED <<probe, retry, req, scroll, candidates, errorCount, targets, web, events, ret>>

\* await pages[i].close().catch(() => {}) for i = closeIdx: the tab is
\* closed, or close() rejected and the tab is left as it is; after the last
\* one the run completes. closeCalls are the pages close() was called on,
\* released the ones whose close() resolved.
CloseTabFirstOnly ==
    /\ pc = "closeTabs"
    /\ \E closed \in BOOLEAN :
        LET sd == [sched EXCEPT !.closeIdx = @ + 1,
                                !.closeCalls = @ \cup {sched.closeIdx},
                                !.released = IF closed THEN @ \cup {sched.closeIdx} ELSE @,
                                !.open = IF closed THEN @ \ {sched.closeIdx} ELSE @]
        IN  /\ sched' = sd
            /\ pc' = "done"
            /\ events' = Append(events, Completed(sd))
            /\ ret' = Returned(SortResults(sd.finalResults))
    /\ UNCHANGED <<probe, retry, req, scroll, candidates, errorCount, targets, web>>

CloseTab ==
    /\ pc = "closeTabs"
    /\ \E closed \in BOOLEAN :
        LET sd == [sched EXCEPT !.closeIdx = @ + 1,
                                !.closeCalls = @ \cup {sched.closeIdx},
                                !.released = IF closed THEN @ \cup {sched.closeIdx} ELSE @,
                                !.open = IF closed THEN @ \ {sched.closeIdx} ELSE @]
        IN  /\ sched' = sd
            /\ IF sd.closeIdx < sd.nPages
               THEN /\ pc' = "closeTabs"
                    /\ events' = events
                    /\ ret' = ret
               ELSE /\ pc' = "done"
                    /\ events' = Append(events, Completed(sd))
                    /\ ret' = Returned(SortResults(sd.finalResults))
    /\ UNCHANGED <<probe, retry, req, scroll, candidates, errorCount, targets, web>>

RetryInSearch ==
    /\ pc \in {"goto", "query"}
    /\ RetryStep

Next ==
    \/ SearchCall
    \/ RetryInSearch
    \/ GotoDone
    \/ QueryDone
    \/ RetryExhausted
    \/ FeedVisible
    \/ FeedTimeout
    \/ ScrollIteration
    \/ ExtractThrows
    \/ Extract
    \/ OpenTab
    \/ OpenTabThrows
    \/ \E c \in 1..(maxItemsPerTab * maxTabs) : ItemDone(c)
    \/ RoundJoin
    \/ RoundDelayDone
    \/ CloseTab

Spec == Init /\ [][Next]_vars

(***************************************************************************)
(* search() as the server runs it: the events are the 'progress' events of *)
(* the session's socket, those search() reports through progressCallback   *)
(* and the one the server sends itself when search() has returned results. *)
(***************************************************************************)
\* if (results.length > 0) { ...; socket.emit('progress', {stage: 'saving', ...})
SavingAnnounced ==
    /\ pc = "done"
    /\ ret.kind = "returned"
    /\ Len(ret.list) > 0
    /\ pc' = "export"
    /\ events' = Append(events, Ev("saving"))
    /\ UNCHANGED <<probe, retry, req, scroll, candidates, errorCount, targets, sched, web, ret>>

NextSession ==
    \/ Next
    \/ SavingAnnounced

SpecSession == Init /\ [][NextSession]_vars

(***************************************************************************)
(* retryOperation on its own: any fn, any maxRetries in 0..MaxAttempts     *)
(***************************************************************************)
Quiet ==
    /\ pc = "idle"
    /\ req = NoRequest
    /\ scroll = NoScroll
    /\ candidates = <<>>
    /\ errorCount = 0
    /\ targets = <<>>
    /\ sched = NoSched
    /\ web = NoWeb
    /\ events = <<>>
    /\ ret = Running
    /\ probe = NoProbe

InitRetry ==
    /\ retry = RetryIdle
    /\ Quiet

CallRetryOperation ==
    /\ retry.st = "idle"
    /\ \E n \in 0..MaxAttempts : retry' = RetryBegin("fn", n)
    /\ UNCHANGED <<probe, pc, req, scroll, candidates, errorCount, targets, sched, web, events, ret>>

NextRetry ==
    \/ CallRetryOperation
    \/ RetryStep

SpecRetry == InitRetry /\ [][NextRetry]_vars

(***************************************************************************)
(* extractBasicList on its own: any feed of at most MaxLinks links, each   *)
(* link one of FeedLinks (two urls, two texts, and the ways a link is      *)
(* skipped: no href, getAttribute throwing, no readable text, blank text)  *)
(***************************************************************************)
FeedLinks ==
    { [href |-> h, aria |-> <<>>, text |-> t, fault |-> "none"] :
          h \in {1, 2}, t \in {Kinds[1].text, Kinds[2].text} }
    \cup
    { [href |-> 0, aria |-> <<>>, text |-> Kinds[1].text, fault |-> "none"],
      [href |-> 2, aria |-> <<>>, text |-> Kinds[1].text, fault |-> "href"],
      [href |-> 1, aria |-> <<>>, text |-> Kinds[3].text, fault |-> "text"],
      [href |-> 1, aria |-> <<>>, text |-> <<" ", "\n">>, fault |-> "none"] }

InitExtract ==
    /\ retry = RetryIdle
    /\ pc = "feed"
    /\ req = NoRequest
    /\ scroll = NoScroll
    /\ candidates = <<>>
    /\ errorCount = 0
    /\ targets = <<>>
    /\ sched = NoSched
    /\ web = NoWeb
    /\ events = <<>>
    /\ ret = Running
    /\ probe = NoProbe

\* the feed shows one more listing link
FeedGrows ==
    /\ pc = "feed"
    /\ Len(web.links) < MaxLinks
    /\ \E l \in FeedLinks : web' = [web EXCEPT !.links = Append(@, l)]
    /\ UNCHANGED <<probe, retry, pc, req, scroll, candidates, errorCount, targets, sched, events, ret>>

\* extractBasicList(feedLocator) runs on the links the feed shows;
\* probe.results is its array results, before the duplicates are removed
CallExtractBasicList ==
    /\ pc = "feed"
    /\ pc' = "extracted"
    /\ candidates' = ExtractBasicList(web.links)[1]
    /\ errorCount' = ExtractBasicList(web.links)[2]
    /\ probe' = [fn |-> "extractBasicList", results |-> ParseLinks(web.links)[1]]
    /\ UNCHANGED <<retry, req, scroll, targets, sched, web, events, ret>>

NextExtract ==
    \/ FeedGrows
    \/ CallExtractBasicList

SpecExtract == InitExtract /\ [][NextExtract]_vars

(***************************************************************************)
(* The parse of one listing on its own: the body of the loop of            *)
(* extractBasicList on one link, for every text of at most MaxText         *)
(* characters of RatingChars                                               *)
(***************************************************************************)
Seqs(C, n) == UNION {[1..k -> C] : k \in 0..n}
RatingChars == {"4", "5", ".", "0"}

\* the state in which only a function called on its own runs
Idle ==
    /\ retry = RetryIdle
    /\ pc = "idle"
    /\ req = NoRequest
    /\ scroll = NoScroll
    /\ candidates = <<>>
    /\ errorCount = 0
    /\ targets = <<>>
    /\ sched = NoSched
    /\ web = NoWeb
    /\ events = <<>>
    /\ ret = Running

InitItemText ==
    /\ Idle
    /\ probe \in {[fn |-> "parseItem", text |-> t, done |-> FALSE, out |-> <<>>] :
                     t \in Seqs(RatingChars, MaxText)}

\* the loop body runs on a link with this text: out holds the record pushed
\* to results, or nothing when the link is skipped
ParseItem ==
    /\ probe.fn = "parseItem"
    /\ ~probe.done
    /\ probe' = [probe EXCEPT !.done = TRUE,
                              !.out = ParseLinks(<< [href |-> 1, aria |-> <<>>,
                                                     text |-> probe.text, fault |-> "none"] >>)[1]]
    /\ UNCHANGED <<retry, pc, req, scroll, candidates, errorCount, targets, sched, web, events, ret>>

NextItemText == ParseItem

SpecItemText == InitItemText /\ [][NextItemText]_vars

(***************************************************************************)
(* Business-hours texts, written from what they say: a text is a list of   *)
(* segments joined by " / ", a segment is its day characters, ": " and     *)
(* either the closed-day marker or a window "18ji00fun tilde 5ji00fun"     *)
(* (times in minutes of the day)                                           *)
(***************************************************************************)
TwoDigits(n) == <<DigitSeq[(n \div 10) + 1], DigitSeq[(n % 10) + 1]>>
HourDigits(n) == IF n < 10 THEN <<DigitSeq[n + 1]>> ELSE TwoDigits(n)
ClockText(m) == HourDigits(m \div 60) \o <<"ji">> \o TwoDigits(m % 60) \o <<"fun">>
TimeText(m) == HourDigits(m \div 60) \o <<":">> \o TwoDigits(m % 60)

Segment(days, closed, open, close) ==
    [days |-> days, closed |-> closed, open |-> open, close |-> close]
SegmentText(g) ==
    g.days \o <<":", " ">> \o
    (IF g.closed THEN <<"tei", "kyuu", "nichi">>
     ELSE ClockText(g.open) \o <<"tilde">> \o ClockText(g.close))
RECURSIVE HoursText(_)
HoursText(gs) ==
    IF gs = <<>> THEN <<>>
    ELSE IF Len(gs) = 1 THEN SegmentText(gs[1])
    ELSE SegmentText(gs[1]) \o <<" ", "/", " ">> \o HoursText(Tail(gs))

\* the segments tried: Monday or Tuesday+Saturday; closed, or a window in the
\* day, over midnight, or with equal ends
Segments ==
    { Segment(d, FALSE, w[1], w[2]) :
          d \in {<<"getsu">>, <<"ka2", "do">>},
          w \in {<<1080, 300>>, <<540, 1260>>, <<600, 600>>} }
    \cup { Segment(d, TRUE, 0, 0) : d \in {<<"getsu">>, <<"ka2", "do">>} }
DayName(d) == <<d, "you", "nichi">>
\* the times and the days asked for
Times == {300, 600, 1080, 1380}
DayLists == {<<>>, <<DayName("getsu")>>, <<DayName("do"), DayName("nichi")>>}

(***************************************************************************)
(* Functions of the scraper called on their own, on arguments drawn from   *)
(* the sets above and below                                                *)
(***************************************************************************)
OpenAtTimeProbes ==
    { [fn |-> "checkOpenAtTime", segments |-> gs, time |-> t, days |-> ds,
       done |-> FALSE, out |-> [passed |-> FALSE, reason |-> ""]] :
          gs \in Seqs(Segments, MaxSegments), t \in Times, ds \in DayLists }

\* checkOpenAtTime(businessHours, targetTime, targetDays)
CallCheckOpenAtTime ==
    /\ probe.fn = "checkOpenAtTime"
    /\ ~probe.done
    /\ probe' = [probe EXCEPT !.done = TRUE,
                              !.out = CheckOpenAtTime(HoursText(probe.segments),
                                                      TimeText(probe.time), probe.days)]
    /\ UNCHANGED <<retry, pc, req, scroll, candidates, errorCount, targets, sched, web, events, ret>>

\* the fields of a candidate and of a detail record that are tried
Ramen == <<"ra", "cho", "me", "nn">>
Cafe == <<"C", "a", "f", "e">>
Yen1000 == <<"YEN", "1", ",", "0", "0", "0">>
YenRange == <<"YEN", "2", ",", "0", "0", "0", "tilde", "3", ",", "0", "0", "0">>
Candidate(rating, reviews, category, budget, review, listText) ==
    [name |-> <<"N">>, rating |-> rating, reviews |-> reviews, url |-> 1, category |-> category,
     budget |-> budget, review |-> review, listText |-> listText]
FilterChoices ==
    { NoFilters,
      [NoFilters EXCEPT !.category = <<"c", "a", "f", "e">>],
      [NoFilters EXCEPT !.budgetMax = 500],
      [NoFilters EXCEPT !.budgetMin = 2000] }

PreFilterProbes ==
    { [fn |-> "preFilter", candidate |-> Candidate(r, v, c, b, <<>>, t),
       minRating |-> mr, minReviews |-> mv, filters |-> f, done |-> FALSE, out |-> <<>>] :
          r \in {0, 30, 46, 50}, v \in {NaN, 0, 5, 10, 50}, c \in {Unknown, Ramen},
          b \in {<<>>, Yen1000}, t \in {<<>>, Cafe},
          mr \in {0, 30, 46}, mv \in {0, 10}, f \in FilterChoices }

\* the pre-filter loop of search() on one candidate: out is targets
CallPreFilter ==
    /\ probe.fn = "preFilter"
    /\ ~probe.done
    /\ probe' = [probe EXCEPT !.done = TRUE,
                              !.out = PreFilter(<<probe.candidate>>, probe.minRating,
                                                probe.minReviews, probe.filters)]
    /\ UNCHANGED <<retry, pc, req, scroll, candidates, errorCount, targets, sched, web, events, ret>>

Details(rating, reviews, category, budget) ==
    [address |-> <<"A">>, category |-> category, budget |-> budget, businessHours |-> <<"H">>,
     detailRating |-> rating, detailReviews |-> reviews]
MergeProbes ==
    { [fn |-> "merge", target |-> Candidate(r, v, c, b, w, <<>>), details |-> Details(dr, dv, dc, db),
       done |-> FALSE, out |-> NoResult] :
          r \in {0, 42}, v \in {NaN, 0, 10}, c \in {Unknown, Ramen}, b \in {<<>>, Yen1000},
          w \in {<<>>, <<"g">>},
          dr \in {0, 45, 99}, dv \in {NaN, 0, 123}, dc \in {Unknown, Cafe}, db \in {<<>>, YenRange} }

\* the merge of processChunk on one target and one detail record
CallMerge ==
    /\ probe.fn = "merge"
    /\ ~probe.done
    /\ probe' = [probe EXCEPT !.done = TRUE, !.out = Merge(probe.target, probe.details)]
    /\ UNCHANGED <<retry, pc, req, scroll, candidates, errorCount, targets, sched, web, events, ret>>

\* merged results: what the business hours say, the address, the rest
ItemSegments ==
    { <<>>,
      << Segment(<<"getsu">>, FALSE, 1080, 300) >>,
      << Segment(<<"getsu">>, FALSE, 540, 1260), Segment(<<"ka2", "do">>, TRUE, 0, 0) >>,
      << Segment(<<"ka2", "do">>, TRUE, 0, 0) >>,
      << Segment(<<"ka2", "do">>, FALSE, 540, 1260) >> }
ItemAddresses == { <<>>, <<"S", "h", "i", "n", "j", "u", "k", "u", " ", "1">>, <<"shin", "juku", "1">> }
AddressFilters == { <<>>, <<"s", "h", "i", "n", "j", "u", "k", "u", ",", " ", "x">>, <<"shin", "juku">> }
Item(segments, address, reviews, category, budget) ==
    [name |-> <<"N">>, url |-> 1, address |-> address, businessHours |-> HoursText(segments),
     rating |-> 42, reviews |-> reviews, category |-> category, budget |-> budget, review |-> <<>>]

CheckFiltersProbes ==
    { [fn |-> "checkFilters", segments |-> gs, item |-> Item(gs, a, v, c, b), minReviews |-> mv,
       filters |-> [f EXCEPT !.address = fa, !.days = fd,
                             !.hours = IF ft = 0 THEN <<>> ELSE TimeText(ft)],
       done |-> FALSE, out |-> [passed |-> FALSE, reason |-> ""]] :
          gs \in ItemSegments, a \in ItemAddresses, v \in {NaN, 5, 10}, c \in {Unknown, Cafe},
          b \in {<<>>, Yen1000}, mv \in {0, 10}, f \in FilterChoices, fa \in AddressFilters,
          fd \in DayLists, ft \in {0, 600, 1380} }

\* checkFilters(item, minReviews, filters)
CallCheckFilters ==
    /\ probe.fn = "checkFilters"
    /\ ~probe.done
    /\ probe' = [probe EXCEPT !.done = TRUE,
                              !.out = CheckFilters(probe.item, probe.minReviews, probe.filters)]
    /\ UNCHANGED <<retry, pc, req, scroll, candidates, errorCount, targets, sched, web, events, ret>>

InitFunctions ==
    /\ Idle
    /\ probe \in OpenAtTimeProbes \cup PreFilterProbes \cup MergeProbes \cup CheckFiltersProbes

NextFunctions ==
    \/ CallCheckOpenAtTime
    \/ CallPreFilter
    \/ CallMerge
    \/ CallCheckFilters

SpecFunctions == InitFunctions /\ [][NextFunctions]_vars

(***************************************************************************)
(* autoScroll(feedLocator) on its own, one iteration of its loop per step. *)
(*   probe.recent are the last three iterations: what each one met and     *)
(*   whether the scrollHeight read after the scroll was previousHeight;    *)
(*   probe.exit is how the loop was left: "break", "catch" (the outer      *)
(*   catch) or "cap" (the for loop ran out); scroll.i is scrollAttempt.    *)
(***************************************************************************)
ScrollProbe == [fn |-> "autoScroll", done |-> FALSE, exit |-> "none", recent |-> <<>>]

InitScroll ==
    /\ retry = RetryIdle
    /\ pc = "scroll"
    /\ req = NoRequest
    /\ scroll = NoScroll
    /\ candidates = <<>>
    /\ errorCount = 0
    /\ targets = <<>>
    /\ sched = NoSched
    /\ web = NoWeb
    /\ events = <<>>
    /\ ret = Running
    /\ probe = ScrollProbe

Met(sc, o) == [kind |-> o.kind, same |-> o.kind = "height" /\ o.h = sc.previousHeight]
LastThree(s) == IF Len(s) <= 3 THEN s ELSE SubSeq(s, Len(s) - 2, Len(s))
ScrollExit(sc, o) ==
    IF o.kind = "measureThrows" THEN "catch"
    ELSE IF ScrollStopsUncapped(sc, o) THEN "break"
    ELSE "cap"

\* one iteration of the for loop of autoScroll, and its return after the last
AutoScrollIteration ==
    /\ probe.fn = "autoScroll"
    /\ pc = "scroll"
    /\ \E o \in ScrollOutcomes :
          /\ scroll' = ScrollLocals(scroll, o)
          /\ pc' = IF ScrollStops(scroll, o) THEN "scrolled" ELSE "scroll"
          /\ probe' = [probe EXCEPT !.done = ScrollStops(scroll, o),
                                    !.exit = IF ScrollStops(scroll, o)
                                             THEN ScrollExit(scroll, o) ELSE "none",
                                    !.recent = LastThree(Append(@, Met(scroll, o)))]
    /\ UNCHANGED <<retry, req, candidates, errorCount, targets, sched, web, events, ret>>

NextScroll == AutoScrollIteration

\* every await of an iteration settles: the waits are timed, and so are the
\* calls on the locator
SpecScroll == InitScroll /\ [][NextScroll]_vars /\ WF_vars(NextScroll)

(***************************************************************************)
(* A request of the server endpoint POST /api/scrape and a run of the      *)
(* command line, up to the end of the run.                                 *)
(*   The values the request carries are JavaScript values: a number, null, *)
(*   undefined, a string or the filters object. Numbers are in tenths      *)
(*   (4.5 is 45, 10 reviews are 100), so that a rating and a count can     *)
(*   stand in the same place.                                              *)
(*   probe.body is req.body (program.opts() for the command line),         *)
(*   probe.filters the object built from it, probe.args the arguments of   *)
(*   the call of scraper.search, probe.params the parameters of search as  *)
(*   bound; req is what the filters of search() then evaluate; events are  *)
(*   the events sent to the session's socket, without the log and progress *)
(*   events search() itself sends; probe.error is the error on its way to  *)
(*   the catch, probe.closes the number of calls of scraper.close() and    *)
(*   probe.exit the exit code of the command line.                         *)
(***************************************************************************)
JsUndefined == [type |-> "undefined", num |-> Null, str |-> <<>>, obj |-> NoFilters]
JsNull == [type |-> "null", num |-> Null, str |-> <<>>, obj |-> NoFilters]
JsNumber(n) == [type |-> "number", num |-> n, str |-> <<>>, obj |-> NoFilters]
JsString(s) == [type |-> "string", num |-> Null, str |-> s, obj |-> NoFilters]
JsObject(o) == [type |-> "object", num |-> Null, str |-> <<>>, obj |-> o]

\* a || d
JsFalsy(v) ==
    \/ v.type \in {"undefined", "null"}
    \/ v.type = "number" /\ v.num \in {0, NaN}
    \/ v.type = "string" /\ v.str = <<>>
JsOr(v, d) == IF JsFalsy(v) THEN d ELSE v

\* parseFloat(v), parseInt(v) of a number, of null and of undefined
parseFloat(v) == IF v.type = "number" THEN v ELSE JsNumber(NaN)
parseInt(v) == IF v.type = "number" /\ v.num >= 0 THEN JsNumber((v.num \div 10) * 10) ELSE JsNumber(NaN)

Keyword == <<"ra", "cho", "me", "nn">>

\* the request bodies the page sends (public/app.js: numbers or null)
Bodies ==
    [ keyword : {JsString(<<>>), JsString(Keyword)},
      address : {JsString(<<>>)},
      ratingMin : {JsNumber(0), JsNumber(40)},
      ratingMax : {JsNull, JsNumber(45)},
      reviewCountMin : {JsNumber(0), JsNumber(100)},
      reviewCountMax : {JsNull, JsNumber(5000)},
      addressFilter : {JsString(<<>>)},
      categoryFilter : {JsString(<<>>), JsString(Keyword)},
      budgetMin : {JsNull},
      budgetMax : {JsNull, JsNumber(15000)},
      dayFilter : {<<>>},
      hoursFilter : {JsString(<<>>)},
      maxItems : {JsNumber(0), JsNumber(10)} ]

\* program.opts(): --rating and --count default to 0, --rating-max and
\* --count-max are undefined when not given; keyword and address are required
CliOptions ==
    [ keyword : {JsString(Keyword)},
      address : {JsString(<<"to", "kyo">>)},
      rating : {JsNumber(0), JsNumber(40)},
      ratingMax : {JsUndefined, JsNumber(45)},
      count : {JsNumber(0), JsNumber(100)},
      countMax : {JsUndefined, JsNumber(5000)} ]

\* const filters = { address: addressFilter || '', ... }
BuildFilters(body) ==
    [ address |-> JsOr(body.addressFilter, JsString(<<>>)).str,
      category |-> JsOr(body.categoryFilter, JsString(<<>>)).str,
      budgetMin |-> IF JsFalsy(body.budgetMin) THEN Null ELSE body.budgetMin.num \div 10,
      budgetMax |-> IF JsFalsy(body.budgetMax) THEN Null ELSE body.budgetMax.num \div 10,
      days |-> body.dayFilter,
      hours |-> JsOr(body.hoursFilter, JsString(<<>>)).str,
      maxItems |-> JsOr(parseInt(body.maxItems), JsNumber(0)).num \div 10 ]

\* scraper.search(address, keyword, parseFloat(ratingMin) || 0, ...)
ServerArgs(body, filters) ==
    << body.address,
       body.keyword,
       JsOr(parseFloat(body.ratingMin), JsNumber(0)),
       JsOr(parseFloat(body.ratingMax), JsNull),
       JsOr(parseInt(body.reviewCountMin), JsNumber(0)),
       JsOr(parseInt(body.reviewCountMax), JsNull),
       JsObject(filters) >>

\* scraper.search(options.address, options.keyword, options.rating, ...)
CliArgs(options) ==
    << options.address,
       options.keyword,
       options.rating,
       JsOr(options.ratingMax, JsNull),
       options.count,
       JsOr(options.countMax, JsNull) >>

\* async search(address, keyword, minRating = 0, minReviews = 0, filters = {})
\* the k-th argument is bound to the k-th parameter; a default applies to a
\* parameter that is undefined; arguments past the fifth are dropped
Argument(args, k) == IF k <= Len(args) THEN args[k] ELSE JsUndefined
DefaultTo(v, d) == IF v.type = "undefined" THEN d ELSE v
SearchParams(args) ==
    [ address |-> Argument(args, 1),
      keyword |-> Argument(args, 2),
      minRating |-> DefaultTo(Argument(args, 3), JsNumber(0)),
      minReviews |-> DefaultTo(Argument(args, 4), JsNumber(0)),
      filters |-> DefaultTo(Argument(args, 5), JsObject(NoFilters)) ]

\* what search() evaluates: 'r < minRating' and 'rev < minReviews' convert
\* null to 0, and a property of a number ('filters.address' ...) is undefined
ToNumber(v) == IF v.type = "number" THEN v.num ELSE 0
Evaluated(params) ==
    [ minRating |-> ToNumber(params.minRating),
      minReviews |-> CeilDiv(ToNumber(params.minReviews), 10),
      filters |-> IF params.filters.type = "object" THEN params.filters.obj ELSE NoFilters ]

NoParams == SearchParams(<<>>)
NoError == <<>>
ServerProbe(body) ==
    [fn |-> "scrape", body |-> body, status |-> 0, filters |-> NoFilters, args |-> <<>>,
     params |-> NoParams, results |-> <<>>, error |-> NoError, exit |-> Null, closes |-> 0]
CliProbe(options) ==
    [fn |-> "cli", body |-> options, status |-> 0, filters |-> NoFilters, args |-> <<>>,
     params |-> NoParams, results |-> <<>>, error |-> NoError, exit |-> Null, closes |-> 0]

InitServer ==
    /\ retry = RetryIdle
    /\ req = NoRequest
    /\ scroll = NoScroll
    /\ candidates = <<>>
    /\ errorCount = 0
    /\ targets = <<>>
    /\ sched = NoSched
    /\ web = NoWeb
    /\ events = <<>>
    /\ ret = Running
    /\ \/ pc = "post" /\ probe \in { ServerProbe(b) : b \in Bodies }
       \/ pc = "cli" /\ probe \in { CliProbe(o) : o \in CliOptions }

\* socket.emit(name, payload)
Log(type) == [event |-> "log", success |-> FALSE, count |-> 0, results |-> <<>>, message |-> <<type>>]
Saving == [event |-> "progress", success |-> FALSE, count |-> 0, results |-> <<>>, message |-> <<"saving">>]
CompleteSuccess(results) ==
    [event |-> "complete", success |-> TRUE, count |-> Len(results), results |-> results,
     message |-> <<>>]
CompleteFailure(message) ==
    [event |-> "complete", success |-> FALSE, count |-> 0, results |-> <<>>, message |-> message]
NoResults == <<"no results">>     \* '結果が見つかりませんでした。検索条件を変更してください。'

\* what the searches of this section return: no record, one or two
FoundLists == {<<>>, <<"A">>, <<"A", "B">>}
InitializeErrors == {<<"browser initialization error", e>> : e \in Errors}
ExportErrors == {<<"EACCES">>}

ServerUnchanged == UNCHANGED <<retry, scroll, candidates, errorCount, targets, sched, web>>

\* app.post('/api/scrape', ...): 400 without a keyword; otherwise the filters
\* are put together, the session is answered and the run is scheduled
PostScrape ==
    /\ pc = "post"
    /\ IF JsFalsy(probe.body.keyword)
       THEN /\ pc' = "rejected"
            /\ probe' = [probe EXCEPT !.status = 400]
       ELSE /\ pc' = "accepted"
            /\ probe' = [probe EXCEPT !.status = 200, !.filters = BuildFilters(probe.body)]
    /\ UNCHANGED <<req, events, ret>>
    /\ ServerUnchanged

\* the background run after its 500 ms: the first log, the scraper and the
\* exporter are made, console is redirected
RunStarts ==
    /\ pc = "accepted"
    /\ pc' = "initialize"
    /\ events' = Append(events, Log("info"))
    /\ UNCHANGED <<req, ret, probe>>
    /\ ServerUnchanged

\* await scraper.initialize() resolves: log, and search is called
InitializeDone ==
    /\ pc = "initialize"
    /\ pc' = "search"
    /\ events' = Append(events, Log("info"))
    /\ LET args == ServerArgs(probe.body, probe.filters)
       IN  /\ probe' = [probe EXCEPT !.args = args, !.params = SearchParams(args)]
           /\ req' = Evaluated(SearchParams(args))
    /\ UNCHANGED ret
    /\ ServerUnchanged

\* await scraper.initialize() rejects: to the finally
InitializeThrows ==
    /\ pc = "initialize"
    /\ \E e \in InitializeErrors : probe' = [probe EXCEPT !.error = e]
    /\ pc' = "finally"
    /\ UNCHANGED <<req, events, ret>>
    /\ ServerUnchanged

\* search resolves: with results the saving is announced and the export
\* begins; without, the run completes with the message
SearchReturns ==
    /\ pc = "search"
    /\ \E results \in FoundLists :
          /\ ret' = Returned(results)
          /\ probe' = [probe EXCEPT !.results = results]
          /\ IF Len(results) > 0
             THEN /\ events' = events \o <<Log("info"), Saving>>
                  /\ pc' = "export"
             ELSE /\ events' = Append(events, CompleteFailure(NoResults))
                  /\ pc' = "finally"
    /\ UNCHANGED req
    /\ ServerUnchanged

\* search rejects
SearchThrows ==
    /\ pc = "search"
    /\ \E e \in Errors :
          /\ ret' = Raised(e)
          /\ probe' = [probe EXCEPT !.error = <<"search error", e>>]
    /\ pc' = "finally"
    /\ UNCHANGED <<req, events>>
    /\ ServerUnchanged

\* await exporter.writeRecords(results) resolves: the run completes
ExportDone ==
    /\ pc = "export"
    /\ events' = Append(events, CompleteSuccess(probe.results))
    /\ pc' = "finally"
    /\ UNCHANGED <<req, ret, probe>>
    /\ ServerUnchanged

\* await exporter.writeRecords(results) rejects
ExportThrows ==
    /\ pc = "export"
    /\ \E e \in ExportErrors : probe' = [probe EXCEPT !.error = e]
    /\ pc' = "finally"
    /\ UNCHANGED <<req, events, ret>>
    /\ ServerUnchanged

\* what close() logs through the redirected console: nothing without a
\* browser, else two lines, the second a warning when browser.close() failed
CloseLogs ==
    {<<Log("info"), Log("info")>>, <<Log("info"), Log("warning")>>}
        \cup (IF probe.error \in InitializeErrors THEN {<<>>} ELSE {})

CloseRethrows ==
    /\ pc = "finally"
    /\ pc' = "end"
    /\ \E logs \in CloseLogs :
          events' = events \o logs \o <<Log("error"), CompleteFailure(<<"close error">>)>>
    /\ probe' = [probe EXCEPT !.closes = @ + 1]
    /\ UNCHANGED <<req, ret>>
    /\ ServerUnchanged

\* finally { await scraper.close(); ... }: close() catches its own errors;
\* then, with an error on its way, catch (error) { log; complete }
Close ==
    /\ pc = "finally"
    /\ pc' = "end"
    /\ \E logs \in CloseLogs :
          events' = IF probe.error = NoError
                    THEN events \o logs
                    ELSE events \o logs \o <<Log("error"), CompleteFailure(probe.error)>>
    /\ probe' = [probe EXCEPT !.closes = @ + 1]
    /\ UNCHANGED <<req, ret>>
    /\ ServerUnchanged

\* the command line: await scraper.initialize() resolves, search is called
CliInitializeDone ==
    /\ pc = "cli"
    /\ pc' = "cliSearch"
    /\ LET args == CliArgs(probe.body)
       IN  /\ probe' = [probe EXCEPT !.args = args, !.params = SearchParams(args)]
           /\ req' = Evaluated(SearchParams(args))
    /\ UNCHANGED <<events, ret>>
    /\ ServerUnchanged

\* catch (error) { ...; process.exit(1) } with results still []
CliInitializeThrows ==
    /\ pc = "cli"
    /\ \E e \in InitializeErrors : probe' = [probe EXCEPT !.error = e, !.exit = 1]
    /\ pc' = "cliEnd"
    /\ UNCHANGED <<req, events, ret>>
    /\ ServerUnchanged

CliSearchReturns ==
    /\ pc = "cliSearch"
    /\ \E results \in FoundLists :
          /\ ret' = Returned(results)
          /\ probe' = [probe EXCEPT !.results = results]
          /\ pc' = IF Len(results) > 0 THEN "cliExport" ELSE "cliFinally"
    /\ UNCHANGED <<req, events>>
    /\ ServerUnchanged

CliSearchThrows ==
    /\ pc = "cliSearch"
    /\ \E e \in Errors :
          /\ ret' = Raised(e)
          /\ probe' = [probe EXCEPT !.error = <<"search error", e>>, !.exit = 1]
    /\ pc' = "cliEnd"
    /\ UNCHANGED <<req, events>>
    /\ ServerUnchanged

CliExportDone ==
    /\ pc = "cliExport"
    /\ pc' = "cliFinally"
    /\ UNCHANGED <<req, events, ret, probe>>
    /\ ServerUnchanged

\* the catch tries once more to save the results, then process.exit(1)
CliExportThrows ==
    /\ pc = "cliExport"
    /\ \E e \in ExportErrors : probe' = [probe EXCEPT !.error = e, !.exit = 1]
    /\ pc' = "cliEnd"
    /\ UNCHANGED <<req, events, ret>>
    /\ ServerUnchanged

\* finally { await scraper.close() } and the program ends
CliClose ==
    /\ pc = "cliFinally"
    /\ pc' = "cliEnd"
    /\ probe' = [probe EXCEPT !.exit = 0, !.closes = @ + 1]
    /\ UNCHANGED <<req, events, ret>>
    /\ ServerUnchanged

NextServer ==
    \/ PostScrape
    \/ RunStarts
    \/ InitializeDone
    \/ InitializeThrows
    \/ SearchReturns
    \/ SearchThrows
    \/ ExportDone
    \/ ExportThrows
    \/ Close
    \/ CliInitializeDone
    \/ CliInitializeThrows
    \/ CliSearchReturns
    \/ CliSearchThrows
    \/ CliExportDone
    \/ CliExportThrows
    \/ CliClose

\* the timer of the background run fires, and initialize, search, the export
\* and close settle: each of them is bounded by a timeout of the scraper
SpecServer == InitServer /\ [][NextServer]_vars /\ WF_vars(NextServer)

(***************************************************************************)
(* Scrape sessions that overlap on the server, and their clients.          *)
(*   probe.at[s] is where session s is: "idle" (not posted), "accepted"    *)
(*   (answered, the 500 ms timer pending), "running" (console redirected,  *)
(*   the scraper at work) or "done"; probe.joined[s] whether the client    *)
(*   of s has joined the room s; probe.console the function installed as   *)
(*   console.log (console.error and console.warn are replaced and restored *)
(*   with it): 0 is the one installed before the first session, s > 0 the  *)
(*   one session s installed; probe.saved[s] is originalLog of session s;  *)
(*   probe.logs[s] counts the lines the scraper of s has logged. events    *)
(*   are the events sent to the rooms: the room, the event, the session    *)
(*   whose code sent it, whether the client of the room had joined and     *)
(*   whether the session of the room had finished.                         *)
(***************************************************************************)
Sessions == {1, 2}

SessionsProbe ==
    [fn |-> "sessions",
     at |-> [s \in Sessions |-> "idle"],
     joined |-> [s \in Sessions |-> FALSE],
     console |-> 0,
     saved |-> [s \in Sessions |-> 0],
     logs |-> [s \in Sessions |-> 0]]

InitSessions ==
    /\ retry = RetryIdle
    /\ pc = "serving"
    /\ req = NoRequest
    /\ scroll = NoScroll
    /\ candidates = <<>>
    /\ errorCount = 0
    /\ targets = <<>>
    /\ sched = NoSched
    /\ web = NoWeb
    /\ events = <<>>
    /\ ret = Running
    /\ probe = SessionsProbe

\* io.to(room).emit(event, ...) by the code of session by
Sent(p, room, event, by) ==
    [room |-> room, event |-> event, by |-> by,
     joined |-> p.joined[room], finished |-> p.at[room] = "done"]

\* a call of console.log while f is installed: the function of session f
\* sends the line to the room f and calls its originalLog, and so on down to
\* the function installed before the first session
RECURSIVE ConsoleLog(_, _, _)
ConsoleLog(p, f, by) ==
    IF f = 0 THEN <<>>
    ELSE <<Sent(p, f, "log", by)>> \o ConsoleLog(p, p.saved[f], by)

SessionsUnchanged ==
    UNCHANGED <<retry, pc, req, scroll, candidates, errorCount, targets, sched, web, ret>>

\* the page posts the form; the server answers with the sessionId and
\* schedules the background run
ClientPosts(s) ==
    /\ probe.at[s] = "idle"
    /\ probe' = [probe EXCEPT !.at[s] = "accepted"]
    /\ events' = events
    /\ SessionsUnchanged

\* the page has the answer and sends 'join'; the server's handler puts the
\* socket in the room and logs the line
ClientJoins(s) ==
    /\ probe.at[s] # "idle"
    /\ ~probe.joined[s]
    /\ LET p == [probe EXCEPT !.joined[s] = TRUE]
       IN  /\ probe' = p
           /\ events' = events \o ConsoleLog(p, p.console, 0)
    /\ SessionsUnchanged

\* the 500 ms are over: the first 'log' is sent to the room and console is
\* redirected to the session's socket
SessionStarts(s) ==
    /\ probe.at[s] = "accepted"
    /\ events' = Append(events, Sent(probe, s, "log", s))
    /\ probe' = [probe EXCEPT !.at[s] = "running", !.saved[s] = probe.console, !.console = s]
    /\ SessionsUnchanged

\* the scraper of the session logs a line with console.log
SessionLogs(s) ==
    /\ probe.at[s] = "running"
    /\ probe.logs[s] < MaxLogs
    /\ events' = events \o ConsoleLog(probe, probe.console, s)
    /\ probe' = [probe EXCEPT !.logs[s] = @ + 1]
    /\ SessionsUnchanged

\* the run ends: 'complete' is sent, close() logs its line, and console is
\* set back to what the session had saved
SessionEnds(s) ==
    /\ probe.at[s] = "running"
    /\ events' = Append(events, Sent(probe, s, "complete", s))
                     \o ConsoleLog(probe, probe.console, s)
    /\ probe' = [probe EXCEPT !.at[s] = "done", !.console = probe.saved[s]]
    /\ SessionsUnchanged

NextSessions ==
    \/ \E s \in Sessions : ClientPosts(s)
    \/ \E s \in Sessions : ClientJoins(s)
    \/ \E s \in Sessions : SessionStarts(s)
    \/ \E s \in Sessions : SessionLogs(s)
    \/ \E s \in Sessions : SessionEnds(s)

SpecSessions == InitSessions /\ [][NextSessions]_vars

(***************************************************************************)
(* C1: retryOperation(fn, name, n) invokes fn until its first success or   *)
(* until n attempts have failed. When it returns, the last invocation is   *)
(* the only one that succeeded, it is invocation k <= n, fn was invoked    *)
(* exactly k times and the value returned is that invocation's. When it    *)
(* throws, fn was invoked exactly n times, every invocation failed and     *)
(* the error thrown is the one of the n-th invocation.                     *)
(***************************************************************************)
C1_RetryContract ==
    /\ retry.calls = Len(retry.outcomes) + (IF retry.st = "inFn" THEN 1 ELSE 0)
    /\ retry.calls <= retry.max
    /\ retry.st = "returned" =>
          /\ retry.calls >= 1
          /\ \A j \in 1..(retry.calls - 1) : ~retry.outcomes[j].ok
          /\ retry.outcomes[retry.calls].ok
          /\ retry.result = retry.outcomes[retry.calls].val
    /\ retry.st = "thrown" =>
          /\ retry.calls = retry.max
          /\ \A j \in 1..retry.calls : ~retry.outcomes[j].ok
          /\ retry.max >= 1 => retry.thrown = retry.outcomes[retry.max].val
    /\ retry.st \in {"inFn", "backoff"} =>
          \A j \in 1..Len(retry.outcomes) : ~retry.outcomes[j].ok

\* three attempts, all failed, with the third error differing from the first
C1_Witness ==
    /\ retry.st = "thrown"
    /\ retry.max = 3
    /\ retry.calls = 3
    /\ retry.outcomes[1].val # retry.outcomes[3].val
    /\ retry.thrown = retry.outcomes[3].val

(***************************************************************************)
(* C9: extractBasicList and duplicate urls.                                *)
(***************************************************************************)
\* the positions of the records with url u, and of the links with href u
RecordsOf(u) == {k \in 1..Len(candidates) : candidates[k].url = u}
LinksOf(u, S) == {k \in S : web.links[k].href = u}
AllLinks == 1..Len(web.links)
ReadLinks == {k \in AllLinks : ~LinkSkipped(web.links[k])}

\* one record for every url of S, made from the first link of S with that url
OneRecordPerUrl(S) ==
    /\ \A u \in {web.links[k].href : k \in S} :
          /\ Cardinality(RecordsOf(u)) = 1
          /\ \A r \in RecordsOf(u) : candidates[r] = ParseLink(web.links[SetMin(LinksOf(u, S))])
    /\ \A r \in 1..Len(candidates) : candidates[r].url \in {web.links[k].href : k \in S}

\* C9 as stated: for any sequence of listing links, the output of
\* extractBasicList holds exactly one record per distinct url of the links,
\* and the record carries the fields of the first link with that url.
C9_OneRecordPerLinkUrl ==
    pc = "extracted" => OneRecordPerUrl({k \in AllLinks : web.links[k].href # 0})

\* C9 amended: the output of extractBasicList holds exactly one record per
\* distinct url of the links it could read (href present and read, text read
\* and not blank), and the record carries the fields of the first of these
\* links with that url; a link it could not read gives no record.
C9_OneRecordPerReadUrl ==
    pc = "extracted" => /\ OneRecordPerUrl(ReadLinks)
                        /\ errorCount = Len(web.links) - Cardinality(ReadLinks)

C9_Witness ==
    /\ pc = "extracted"
    /\ Len(web.links) = 3
    /\ ReadLinks = AllLinks
    /\ web.links[1].href = web.links[3].href
    /\ web.links[1].href # web.links[2].href
    /\ web.links[1].text # web.links[3].text
    /\ Len(candidates) = 2
    /\ candidates[1] = ParseLink(web.links[1])

(***************************************************************************)
(* Claims about search()                                                   *)
(***************************************************************************)
Stages(evs) == {evs[k].stage : k \in 1..Len(evs)}
LaterStages == {"waiting", "scrolling", "extracting", "extracted", "prefiltering",
                "prefiltered", "details", "completed"}
Finished == pc = "done" /\ ret.kind = "returned"

\* C2: failures at a pipeline-critical step are fatal. When the navigation
\* or the query submission has failed on each of its 3 attempts, the next
\* step of search() raises the search error with the 3rd attempt's message,
\* there is no result list, no event of a later stage (waiting .. completed)
\* has been or is emitted, and nothing happens after the raise.
C2_CriticalStepFatal ==
    [][ /\ (pc \in {"goto", "query"} /\ retry.st = "thrown") =>
              /\ retry.calls = 3
              /\ \A k \in 1..3 : ~retry.outcomes[k].ok
              /\ pc' = "done"
              /\ ret'.kind = "raised"
              /\ ret'.error = <<"search error", retry.outcomes[3].val>>
              /\ ret'.list = <<>>
              /\ events' = events
              /\ Stages(events) \cap LaterStages = {}
        /\ pc = "done" => UNCHANGED vars ]_vars

C2_Witness ==
    /\ pc = "done"
    /\ ret.kind = "raised"
    /\ ret.error = <<"search error", "net::ERR_FAILED">>
    /\ Stages(events) = {"opening", "searching"}

\* C3: per-item failure isolation. Once the rounds have started search()
\* does not raise; when it has returned, every target has been processed,
\* the targets whose detail fetch raised are exactly the ones counted as
\* failed, none of them is in the output or counted as filtered out, and
\* every other target is counted as matched or as filtered out.
Failing == {k \in 1..Len(targets) : PageOf(web, targets[k].url).nav = "fail"}
RoundOf(c) == (c - 1) \div sched.numTabs
C4_RoundBarrier ==
    /\ \A c \in sched.began : \A d \in 1..Len(sched.chunks) :
          RoundOf(d) < RoundOf(c) => d \in sched.ended
    /\ \A c \in sched.ended \cap DOMAIN sched.pos : sched.pos[c] = Len(sched.chunks[c])

C4_Witness ==
    /\ pc = "round"
    /\ sched.rounds = 2
    /\ sched.began = 1..6
    /\ sched.ended = 1..5
    /\ sched.pos[6] = 0

\* C5: for N >= 1 targets the scheduler uses min(ceil(N/3), 5) tabs, cuts
\* the targets in list order into ceil(N/3) chunks of 3 (the last one the
\* remainder), and has run exactly ceil(chunks / tabs) rounds when search()
\* returns; for N = 13: 5 tabs, chunks of 3,3,3,3,1 and 1 round.
Ceil(n, d) == CHOOSE k \in 0..n : k * d >= n /\ (k - 1) * d < n
RECURSIVE Flat(_)
Flat(cs) == IF cs = <<>> THEN <<>> ELSE Head(cs) \o Flat(Tail(cs))
Sizes(cs) == [k \in 1..Len(cs) |-> Len(cs[k])]
C5_Plan ==
    sched.numTabs > 0 =>
        LET N == Len(targets)
            workers == IF Ceil(N, 3) < 5 THEN Ceil(N, 3) ELSE 5
        IN  /\ N >= 1
            /\ sched.numTabs = workers
            /\ Len(sched.chunks) = Ceil(N, 3)
            /\ Flat(sched.chunks) = targets
            /\ \A k \in 1..(Len(sched.chunks) - 1) : Len(sched.chunks[k]) = 3
            /\ Len(Last(sched.chunks)) = N - 3 * (Len(sched.chunks) - 1)
            /\ sched.rounds <= Ceil(Len(sched.chunks), workers)
            /\ Finished => sched.rounds = Ceil(Len(sched.chunks), workers)
            /\ N = 13 => /\ sched.numTabs = 5
                         /\ Sizes(sched.chunks) = <<3, 3, 3, 3, 1>>
                         /\ Finished => sched.rounds = 1

C5_Witness ==
    /\ Finished
    /\ Len(targets) = 13
    /\ sched.numTabs = 5
    /\ Sizes(sched.chunks) = <<3, 3, 3, 3, 1>>
    /\ sched.rounds = 1

\* C6: deterministic output. The list search() returns is the one obtained
\* by processing the targets one by one in list order and sorting what
\* passed, whatever the order in which the chunks ran and settled.
RECURSIVE OneByOne(_)
OneByOne(ts) ==
    IF ts = <<>> THEN <<>>
    ELSE LET it == ProcessItem(Head(ts), PageOf(web, Head(ts).url), req.minReviews, req.filters)
         IN  (IF it.error = "" /\ it.passed THEN <<it.result>> ELSE <<>>) \o OneByOne(Tail(ts))
C6_Deterministic ==
    Finished => ret.list = SortResults(OneByOne(targets))

\* two chunks of the round settled against their order, both with a record in
\* the output, the two records equal on rating and review count
C6_Witness ==
    /\ Finished
    /\ \E a, b \in 1..Len(sched.settled) :
          /\ a < b
          /\ sched.settled[a] > sched.settled[b]
          /\ \E x, y \in 1..Len(ret.list) :
                /\ x # y
                /\ ret.list[x].rating = ret.list[y].rating
                /\ ret.list[x].reviews = ret.list[y].reviews
                /\ \E k \in 1..Len(sched.chunks[sched.settled[a]]) :
                      sched.chunks[sched.settled[a]][k].url = ret.list[x].url
                /\ \E k \in 1..Len(sched.chunks[sched.settled[b]]) :
                      sched.chunks[sched.settled[b]][k].url = ret.list[y].url

\* C7: the list returned is ordered by rating descending, then by review
\* count descending (a count that is not a number counting as 0, as the
\* comparator takes it), and records equal on both keep the order in which
\* they were pushed; [4.2/10, 4.8/2, 4.2/50] is returned as
\* [4.8/2, 4.2/50, 4.2/10].
PosIn(list, r) == SetMin({k \in 1..Len(list) : list[k] = r})
Keys(list) == [k \in 1..Len(list) |-> <<list[k].rating, list[k].reviews>>]
C7_Ranked ==
    Finished =>
        LET L == ret.list
            F == sched.finalResults
        IN  /\ Len(L) = Len(F)
            /\ \A k \in 1..Len(F) : \E j \in 1..Len(L) : L[j] = F[k]
            /\ \A i, j \in 1..Len(L) : i < j =>
                  \/ OrZero(L[i].rating) > OrZero(L[j].rating)
                  \/ /\ OrZero(L[i].rating) = OrZero(L[j].rating)
                     /\ OrZero(L[i].reviews) > OrZero(L[j].reviews)
                  \/ /\ OrZero(L[i].rating) = OrZero(L[j].rating)
                     /\ OrZero(L[i].reviews) = OrZero(L[j].reviews)
                     /\ PosIn(F, L[i]) < PosIn(F, L[j])
            /\ Keys(F) = << <<42, 10>>, <<48, 2>>, <<42, 50>> >> => L = <<F[2], F[3], F[1]>>

C7_Witness ==
    /\ Finished
    /\ Keys(sched.finalResults) = << <<42, 10>>, <<48, 2>>, <<42, 50>> >>
    /\ Keys(ret.list) = << <<48, 2>>, <<42, 50>>, <<42, 10>> >>

\* C8: the list returned holds at most one record per url, for every feed
\* (the feeds that show a url several times included) and every request.
C8_OneRecordPerUrl ==
    \A i, j \in 1..Len(ret.list) : ret.list[i].url = ret.list[j].url => i = j

C8_Witness ==
    /\ Finished
    /\ req.minReviews > 0
    /\ \E i, j \in 1..Len(web.links) :
          /\ i < j
          /\ web.links[i].href = web.links[j].href
          /\ ~LinkSkipped(web.links[i])
          /\ ~LinkSkipped(web.links[j])
          /\ \E k \in 1..Len(ret.list) : ret.list[k].url = web.links[i].href
    /\ Len(ret.list) = 2

\* C10: every record of the list returned has a rating in [0, 5] (0 to 50
\* tenths) and a review count that is a non-negative integer.
C10_DataModel ==
    \A k \in 1..Len(ret.list) :
        /\ ret.list[k].rating \in 0..50
        /\ ret.list[k].reviews \in Nat

(***************************************************************************)
(* C11: the rating of the list stage.                                      *)
(***************************************************************************)
\* a decimal d.d at position i of s, and its value in tenths
DecimalAt(s, i) == i + 2 <= Len(s) /\ s[i] \in Digits /\ s[i + 1] = "." /\ s[i + 2] \in Digits
DecimalVal(s, i) == 10 * DigitVal(s[i]) + DigitVal(s[i + 2])
InRangeAt(s) == {i \in 1..Len(s) : DecimalAt(s, i) /\ DecimalVal(s, i) \in 10..50}
\* the first substring that is a decimal in [1.0, 5.0]; 0 when there is none
FirstInRange(s) == IF InRangeAt(s) = {} THEN 0 ELSE DecimalVal(s, SetMin(InRangeAt(s)))
\* whether s holds a decimal from 5.1 to 5.9
OverFive(s) == \E i \in 1..Len(s) : DecimalAt(s, i) /\ DecimalVal(s, i) \in 51..59
Parsed == probe.fn = "parseItem" /\ probe.done

\* C11 as stated: every rating of the list stage is the first substring of
\* the item text that is a decimal in [1.0, 5.0], and 0 when the text has no
\* such substring.
C11_FirstDecimalInRange ==
    Parsed => \A k \in 1..Len(probe.out) :
                  probe.out[k].rating = FirstInRange(probe.text)

\* C11 amended: every rating of the list stage is 0 or a decimal in
\* [1.0, 5.0] that is a substring of the item text; in a text without a
\* decimal from 5.1 to 5.9 it is the first such substring, and 0 only when
\* there is none.
C11_RatingBound ==
    Parsed => \A k \in 1..Len(probe.out) :
                  LET r == probe.out[k].rating
                  IN  /\ r \in {0} \cup (10..50)
                      /\ r # 0 => \E i \in InRangeAt(probe.text) : DecimalVal(probe.text, i) = r
                      /\ ~OverFive(probe.text) => r = FirstInRange(probe.text)

C11_Witness ==
    /\ Parsed
    /\ probe.text = <<"5", ".", "5", "4", ".", "0">>
    /\ Len(probe.out) = 1
    /\ probe.out[1].rating = 40

(***************************************************************************)
(* Claims about the pre-filter and the post-filter                         *)
(***************************************************************************)
PreFiltered == probe.fn = "preFilter" /\ probe.done
\* what the pre-filter says of the candidate when one minimum is taken away
PassesWithoutMinRating ==
    PreFilter(<<probe.candidate>>, 0, probe.minReviews, probe.filters) # <<>>
PassesWithoutMinReviews ==
    PreFilter(<<probe.candidate>>, probe.minRating, 0, probe.filters) # <<>>

\* C12: the pre-filter never rejects on rating a candidate whose list-stage
\* rating is unknown (0): for any ratingMin, such a candidate is among the
\* targets whenever the other checks of the pre-filter let it through.
C12_UnknownRatingKept ==
    (PreFiltered /\ probe.candidate.rating = 0 /\ PassesWithoutMinRating)
        => probe.out = <<probe.candidate>>

\* C13: the pre-filter rejects a candidate on review count if and only if
\* its list-stage count is known (a number > 0) and below reviewCountMin: of
\* the candidates the other checks let through, exactly those are missing
\* from the targets, and a candidate with an unknown count is a target.
C13_ReviewsPreFilter ==
    PreFiltered =>
        LET v == probe.candidate.reviews
            known == v \in Nat /\ v > 0
        IN  /\ PassesWithoutMinReviews =>
                  (probe.out = <<>> <=> (known /\ v < probe.minReviews))
            /\ ~PassesWithoutMinReviews => probe.out = <<>>
            /\ probe.out \in {<<>>, <<probe.candidate>>}

C13_Witness ==
    /\ PreFiltered
    /\ probe.minReviews = 10
    /\ probe.candidate.reviews = 0
    /\ probe.minRating = 30
    /\ probe.out = <<probe.candidate>>

\* C14: when reviewCountMin > 0, every record of the list returned has a
\* merged review count that is a number >= reviewCountMin.
C14_ReviewsRechecked ==
    (Finished /\ req.minReviews > 0) =>
        \A k \in 1..Len(ret.list) :
            ret.list[k].reviews \in Nat /\ ret.list[k].reviews >= req.minReviews

\* a record whose count was unknown in the list and comes from its detail page
C14_Witness ==
    /\ Finished
    /\ req.minReviews = 10
    /\ \E k \in 1..Len(ret.list) : \E j \in 1..Len(targets) :
          /\ targets[j].url = ret.list[k].url
          /\ OrZero(targets[j].reviews) = 0
          /\ ret.list[k].reviews = 123
    /\ sched.filteredOut > 0

\* C15: when ratingMin > 0, no record whose merged rating is below ratingMin
\* is in the list returned.
C15_RatingRechecked ==
    (Finished /\ req.minRating > 0) =>
        \A k \in 1..Len(ret.list) : OrZero(ret.list[k].rating) >= req.minRating

(***************************************************************************)
(* Claims about the merge and about checkOpenAtTime                        *)
(***************************************************************************)
Merged == probe.fn = "merge" /\ probe.done
StrictlyPositive(v) == v \in Nat /\ v >= 1

\* C16: the merge of a candidate with its detail record follows the stated
\* precedence: rating and review count are the detail value when it is
\* strictly positive and the candidate's otherwise; category is the
\* candidate's unless that is "Unknown", then the detail value; budget is
\* the candidate's unless empty, then the detail value; the review snippet
\* is the candidate's.
C16_MergePrecedence ==
    Merged =>
        LET t == probe.target
            d == probe.details
            m == probe.out
        IN  /\ StrictlyPositive(d.detailRating) => m.rating = d.detailRating
            /\ ~StrictlyPositive(d.detailRating) => m.rating = t.rating
            /\ StrictlyPositive(d.detailReviews) => m.reviews = d.detailReviews
            /\ ~StrictlyPositive(d.detailReviews) => m.reviews = t.reviews
            /\ t.category # Unknown => m.category = t.category
            /\ t.category = Unknown => m.category = d.category
            /\ t.budget # <<>> => m.budget = t.budget
            /\ t.budget = <<>> => m.budget = d.budget
            /\ m.review = t.review

C16_Witness ==
    /\ Merged
    /\ probe.target.rating = 42 /\ probe.details.detailRating = 45 /\ probe.out.rating = 45
    /\ probe.target.reviews = 10 /\ probe.details.detailReviews = 0 /\ probe.out.reviews = 10
    /\ probe.target.category = Unknown /\ probe.out.category = Cafe
    /\ probe.target.budget = Yen1000 /\ probe.details.budget = YenRange
    /\ probe.out.budget = Yen1000
    /\ probe.out.review = <<"g">>

OpenChecked == probe.fn = "checkOpenAtTime" /\ probe.done
\* the window of segment g contains the minute t
WindowHas(g, t) ==
    /\ ~g.closed
    /\ g.close > g.open => (g.open <= t /\ t < g.close)
    /\ g.close <= g.open => (t >= g.open \/ t < g.close)
\* segment g is of one of the days asked for, or no day is asked for
OfAskedDay(g, days) ==
    days = <<>> \/ \E k \in 1..Len(days) : \E j \in 1..Len(g.days) : g.days[j] = days[k][1]
MondayNight == << Segment(<<"getsu">>, FALSE, 1080, 300) >>

\* C17: checkOpenAtTime with a time t passes if and only if some segment of
\* the business hours that matches a day asked for (any segment when no day
\* is asked for) has a window containing t: open <= t < close when
\* close > open, t >= open or t < close when close <= open.  For Monday
\* 18:00-5:00 with Monday asked for it passes at 23:00 and fails at 10:00.
C17_OpenAtTime ==
    OpenChecked =>
        /\ probe.out.passed <=>
               \E i \in 1..Len(probe.segments) :
                   OfAskedDay(probe.segments[i], probe.days)
                       /\ WindowHas(probe.segments[i], probe.time)
        /\ (probe.segments = MondayNight /\ probe.days = <<DayName("getsu")>>) =>
               /\ probe.time = 1380 => probe.out.passed
               /\ probe.time = 600 => ~probe.out.passed

C17_Witness ==
    /\ OpenChecked
    /\ probe.segments = MondayNight
    /\ probe.days = <<DayName("getsu")>>
    /\ probe.time = 1380
    /\ probe.out.passed

(***************************************************************************)
(* Claims about checkFilters                                               *)
(***************************************************************************)
FiltersChecked == probe.fn = "checkFilters" /\ probe.done
\* the reasons of the checks that come before the check of the days
BeforeDays ==
    {"too few reviews", "address does not match", "category does not match",
     "budget below the minimum", "budget above the maximum"}
\* the day of name d has its token in the text of segment g
TokenIn(g, d) == Includes(SegmentText(g), <<d[1]>>)
\* the day of name d counts as open in the segments gs: its token is in the
\* text, and in no segment together with a closed marker
CountsAsOpen(gs, d) ==
    /\ \E i \in 1..Len(gs) : TokenIn(gs[i], d)
    /\ \A i \in 1..Len(gs) : TokenIn(gs[i], d) => ~gs[i].closed

\* C18: when days are configured and the record has business hours, a day
\* counts as open iff its token is present in the text and does not appear
\* alongside a closed marker, and the record fails the check of the days
\* exactly when none of the configured days counts as open.
C18_DayOpen ==
    (/\ FiltersChecked
     /\ probe.filters.days # <<>>
     /\ probe.segments # <<>>
     /\ probe.out.reason \notin BeforeDays)
        => (probe.out.reason = "closed on the days asked for"
                <=> ~\E k \in 1..Len(probe.filters.days) :
                        CountsAsOpen(probe.segments, probe.filters.days[k]))

\* C19: when address terms are configured, the record passes the check of
\* the address iff its address contains at least one of the comma-separated
\* terms as a substring, letter case ignored.
C19_AddressIgnoringCase ==
    (/\ FiltersChecked
     /\ Keywords(probe.filters.address) # <<>>
     /\ probe.out.reason # "too few reviews")
        => (probe.out.reason # "address does not match"
                <=> \E k \in 1..Len(Keywords(probe.filters.address)) :
                        Includes(ToLower(probe.item.address),
                                 ToLower(Keywords(probe.filters.address)[k])))

\* the verdict of checkFilters on the item of the probe with one check only
ReviewsAlone == CheckFilters(probe.item, probe.minReviews, NoFilters)
AddressAlone ==
    CheckFilters(probe.item, 0, [NoFilters EXCEPT !.address = probe.filters.address])
CategoryAlone ==
    CheckFilters(probe.item, 0, [NoFilters EXCEPT !.category = probe.filters.category])
BudgetAlone ==
    CheckFilters(probe.item, 0, [NoFilters EXCEPT !.budgetMin = probe.filters.budgetMin,
                                                  !.budgetMax = probe.filters.budgetMax])
DaysAlone == CheckFilters(probe.item, 0, [NoFilters EXCEPT !.days = probe.filters.days])
HoursAlone ==
    IF probe.filters.hours # <<>> /\ probe.item.businessHours # <<>>
    THEN CheckOpenAtTime(probe.item.businessHours, probe.filters.hours, probe.filters.days)
    ELSE [passed |-> TRUE, reason |-> ""]
Alone == {ReviewsAlone, AddressAlone, CategoryAlone, BudgetAlone, DaysAlone, HoursAlone}

\* C20: checkFilters returns an outcome {passed, reason} for every merged
\* result and every configuration; when passed is false the reason is not
\* empty, and passed is true only when none of the checks fails: it is the
\* outcome of the first check that fails when there is one.
C20_Outcome ==
    FiltersChecked =>
        /\ probe.out.passed \in BOOLEAN
        /\ DOMAIN probe.out = {"passed", "reason"}
        /\ ~probe.out.passed => probe.out.reason # ""
        /\ probe.out.passed => \A o \in Alone : o.passed
        /\ ~probe.out.passed => \E o \in Alone : ~o.passed /\ o.reason = probe.out.reason

C20_Witness ==
    /\ FiltersChecked
    /\ probe.segments = MondayNight
    /\ probe.filters.days = <<DayName("getsu")>>
    /\ probe.filters.hours = TimeText(600)
    /\ probe.filters.address # <<>>
    /\ ~probe.out.passed
    /\ probe.out.reason = "not open at the time"

(***************************************************************************)
(* Claims about the feed wait and about the waits of retryOperation        *)
(***************************************************************************)
\* C24: if the result feed never becomes visible within the element-wait
\* timeout, search() returns an empty list without raising, and the scroll,
\* the extraction and the detail stage have not started: nothing was
\* scrolled, extracted, pre-filtered or planned and no event follows
\* 'waiting'.
C24_FeedNeverVisible ==
    (pc = "done" /\ events # <<>> /\ Last(events).stage = "waiting") =>
        /\ ret.kind = "returned"
        /\ ret.list = <<>>
        /\ ret.error = <<>>
        /\ scroll = NoScroll
        /\ web = NoWeb
        /\ candidates = <<>>
        /\ errorCount = 0
        /\ targets = <<>>
        /\ sched = NoSched
        /\ Stages(events) \cap (LaterStages \ {"waiting"}) = {}

C24_Witness ==
    /\ pc = "done"
    /\ Len(events) = 3
    /\ Last(events).stage = "waiting"
    /\ ret.kind = "returned"
    /\ req.minReviews = 10

C22_MaxItems ==
    (pc = "done" /\ req.filters.maxItems > 0) =>
        /\ Len(candidates) <= req.filters.maxItems
        /\ Len(targets) <= req.filters.maxItems
        /\ Len(ret.list) <= req.filters.maxItems


\* C29: the navigation to the detail page of an item goes through
\* retryOperation with 2 attempts: at most 2 page.goto per item, the backoff
\* wait of retryOperation (2000 ms after attempt 1) between the two, and an
\* item recorded as failed only when both attempts failed.
C29_DetailNavigationRetried ==
    \A c \in DOMAIN sched.res : \A j \in 1..Len(sched.res[c]) :
        LET item == sched.res[c][j]
        IN  /\ item.gotos \in {1, 2}
            /\ item.gotos = 2 => item.navWaits = <<2000>>
            /\ item.error # "" => item.gotos = 2

\* C30: within a chunk the items are processed in the order of the list and
\* one at a time.  At any moment of a round the entries of a chunk are those
\* of its first items, in order, each one fetched, merged, post-filtered and
\* classified (or recorded as failed), and a step of a chunk adds the entry
\* of its next item and of no other.
C30_ChunkInOrder ==
    /\ [](pc = "round" =>
            \A c \in DOMAIN sched.res :
                /\ Len(sched.res[c]) = sched.pos[c]
                /\ Len(sched.res[c]) <= Len(sched.chunks[c])
                /\ \A j \in 1..Len(sched.res[c]) :
                      LET item == sched.res[c][j]
                      IN  /\ item.name = sched.chunks[c][j].name
                          /\ item.error = "" =>
                                /\ item.result.url = sched.chunks[c][j].url
                                /\ item.passed \in BOOLEAN
                                /\ ~item.passed => item.reason # ""
                          /\ item.error # "" => item.result = NoResult /\ ~item.passed)
    /\ [][(pc = "round" /\ pc' = "round") =>
            \A c \in DOMAIN sched.res :
                \/ sched'.res[c] = sched.res[c]
                \/ /\ Len(sched'.res[c]) = Len(sched.res[c]) + 1
                   /\ SubSeq(sched'.res[c], 1, Len(sched.res[c])) = sched.res[c]
                   /\ \A d \in DOMAIN sched.res \ {c} : sched'.res[d] = sched.res[d]]_vars

\* the second item of a chunk of three is done after the first one failed
C30_Witness ==
    /\ pc = "round"
    /\ \E c \in DOMAIN sched.res :
          /\ Len(sched.chunks[c]) = 3
          /\ Len(sched.res[c]) = 2
          /\ sched.res[c][1].error # ""
          /\ sched.res[c][2].error = ""
          /\ sched.res[c][2].result.url = sched.chunks[c][2].url
          /\ sched.chunks[c][1].name # sched.chunks[c][3].name

(***************************************************************************)
(* Claims about autoScroll                                                 *)
(***************************************************************************)
ScrollErrors == {"measureThrows", "scrollThrows", "heightThrows"}
Scrolling == probe.fn = "autoScroll"

\* C25: autoScroll always terminates: whatever the feed does (its extent
\* growing for ever, the sentinel never visible, any operation erroring) it
\* performs at most 100 iterations and then returns without raising.
C25_ScrollTerminates ==
    /\ [](Scrolling =>
            /\ scroll.i <= 100
            /\ probe.done <=> pc = "scrolled"
            /\ probe.done => probe.exit \in {"break", "catch", "cap"})
    /\ <>(Scrolling /\ probe.done /\ pc = "scrolled")

\* the 100th iteration ends the loop, the extent having changed every time
C25_Witness ==
    /\ Scrolling
    /\ probe.done
    /\ scroll.i = 100
    /\ probe.exit = "cap"
    /\ scroll.noChangeCount = 0

\* C26: autoScroll stops before the iteration cap exactly when the sentinel
\* is visible after a scroll or the extent has not changed for 3 iterations
\* in a row; it does not stop before that, and a change of the extent sets
\* the no-change count to 0.
C26_StopConditions ==
    (Scrolling /\ scroll.i < 100) =>
        LET r == probe.recent
            sentinel == r # <<>> /\ Last(r).kind = "sentinel"
            still == Len(r) = 3 /\ \A k \in 1..3 : r[k].same
        IN  /\ probe.done <=> (sentinel \/ still)
            /\ (r # <<>> /\ Last(r).kind = "height" /\ ~Last(r).same)
                   => scroll.noChangeCount = 0

\* C27: an error raised by any operation of a scroll iteration is not fatal:
\* the loop goes on with the next iteration as long as the cap is not
\* reached.
C27_ScrollErrorsNonFatal ==
    (/\ Scrolling
     /\ probe.recent # <<>>
     /\ Last(probe.recent).kind \in ScrollErrors
     /\ scroll.i < 100)
        => ~probe.done /\ pc = "scroll"

(***************************************************************************)
(* Claims about a request of the server endpoint and of the command line   *)
(***************************************************************************)
Completes == SelectSeq(events, LAMBDA e : e.event = "complete")
Accepted == probe.fn = "scrape" /\ probe.status = 200

\* the review-count minimum and the filter configuration of the request
RequestedMinReviews ==
    IF probe.fn = "scrape"
    THEN JsOr(parseInt(probe.body.reviewCountMin), JsNumber(0)).num \div 10
    ELSE probe.body.count.num \div 10
RequestedFilters == IF probe.fn = "scrape" THEN probe.filters ELSE NoFilters

(***************************************************************************)
(* C21: once search has been called, by the endpoint or by the command     *)
(* line, the review-count minimum its filters evaluate is the request's    *)
(* reviewCountMin and the filter configuration they read is the one of     *)
(* the request.                                                            *)
(***************************************************************************)
C21_RequestReachesFilters ==
    pc \in {"search", "cliSearch"} =>
        /\ req.minReviews = RequestedMinReviews
        /\ req.filters = RequestedFilters

\* the terminal event of a run that has ended, by the path the run took
TerminalEvent ==
    IF probe.error # NoError THEN CompleteFailure(probe.error)
    ELSE IF Len(probe.results) > 0 THEN CompleteSuccess(probe.results)
    ELSE CompleteFailure(NoResults)

(***************************************************************************)
(* C23: a request the endpoint accepted never has more than one 'complete' *)
(* event, and its run ends with exactly one: success with the results      *)
(* when search returned results and the export succeeded, otherwise a      *)
(* failure carrying one message (no result, or the error of initialize, of *)
(* search or of the export). Every accepted request reaches that end.      *)
(***************************************************************************)
C23_OneComplete ==
    /\ [](Accepted => /\ Len(Completes) <= 1
                      /\ pc = "end" => /\ Completes = <<TerminalEvent>>
                                       /\ TerminalEvent.success \/ TerminalEvent.message # <<>>)
    /\ [](Accepted => <>(pc = "end" /\ Len(Completes) = 1))

\* the export failed after search had returned results
C23_Witness ==
    /\ Accepted
    /\ pc = "end"
    /\ Len(probe.results) > 0
    /\ probe.error \in ExportErrors
    /\ Completes = <<CompleteFailure(probe.error)>>


(***************************************************************************)
(* Claims about the tabs of the detail stage                               *)
(***************************************************************************)
\* the chunks whose processChunk is running
InProgress == {c \in DOMAIN sched.pos : sched.pos[c] < Len(sched.chunks[c])}

(***************************************************************************)
(* C31: at every moment of a run at most 5 tabs are open (this.page and    *)
(* the pages added for the detail stage), and two chunks that are in       *)
(* progress at the same time never use the same page; the page of a chunk  *)
(* in progress is open.                                                    *)
(***************************************************************************)
C31_BoundedWorkers ==
    /\ 1 + Cardinality(sched.open) <= 5
    /\ \A c \in InProgress : sched.page[c] \in {0} \cup sched.open
    /\ \A c, d \in InProgress : c # d => sched.page[c] # sched.page[d]

\* five tabs are open and five chunks are in progress
C31_Witness ==
    /\ pc = "round"
    /\ 1 + Cardinality(sched.open) = 5
    /\ Cardinality(InProgress) = 5


(***************************************************************************)
(* Claims about the progress events of the detail stage                    *)
(***************************************************************************)
DetailsEvents == SelectSeq(events, LAMBDA e : e.stage = "details")
\* the rounds whose Promise.all has resolved
RoundsJoined == IF pc = "round" THEN sched.rounds - 1 ELSE sched.rounds
\* the number of items of the first k rounds
ItemsOfRounds(k) == Min2(k * sched.numTabs * maxItemsPerTab, Len(targets))

(***************************************************************************)
(* C32: there is exactly one 'details' event per round that has ended; the *)
(* event of round k has current = the number of items of the rounds 1..k,  *)
(* total = N, the number of targets, and percent = current / N * 100       *)
(* rounded to the nearest integer (a half is rounded up); the percents     *)
(* never decrease, and when search() has returned the event of the last    *)
(* round has percent = 100.                                                *)
(***************************************************************************)
C32_DetailsPerRound ==
    LET d == DetailsEvents
        N == Len(targets)
    IN  /\ Len(d) = RoundsJoined
        /\ \A k \in 1..Len(d) :
              /\ d[k].current = ItemsOfRounds(k)
              /\ d[k].total = N
              /\ 2 * N * d[k].percent <= 200 * d[k].current + N
              /\ 200 * d[k].current + N < 2 * N * (d[k].percent + 1)
              /\ k > 1 => d[k - 1].percent <= d[k].percent
        /\ (Finished /\ sched.rounds > 0) => Last(d).percent = 100

\* 16 targets: 15 of them in the first round (93.75 %), one in the second
C32_Witness ==
    /\ Finished
    /\ Len(targets) = 16
    /\ Len(DetailsEvents) = 2
    /\ DetailsEvents[1].percent = 94
    /\ DetailsEvents[2].percent = 100


(***************************************************************************)
(* C33: the 'details' event of a round carries the three running counters  *)
(* as they are at the end of the round: matched is the number of matched   *)
(* items, filtered the number of filtered-out items and failed the number  *)
(* of failed items.                                                        *)
(***************************************************************************)
C33_DetailsCounters ==
    (pc # "round" /\ DetailsEvents # <<>>) =>
        /\ Last(DetailsEvents).matched = sched.success
        /\ Last(DetailsEvents).filtered = sched.filteredOut
        /\ Last(DetailsEvents).failed = sched.fail


(***************************************************************************)
(* Claims about the order of the progress events of a session              *)
(***************************************************************************)
Checkpoints ==
    <<"opening", "searching", "waiting", "scrolling", "extracting", "extracted",
      "prefiltering", "prefiltered", "details", "saving", "completed">>
Checkpoint(stage) == CHOOSE k \in 1..Len(Checkpoints) : Checkpoints[k] = stage

(***************************************************************************)
(* C34: the progress events of a session come in the order of the          *)
(* checkpoints opening, searching, waiting, scrolling, extracting,         *)
(* extracted, prefiltering, prefiltered, details, saving, completed: no    *)
(* event is emitted after an event of a later checkpoint, so 'saving'      *)
(* comes before 'completed'.                                               *)
(***************************************************************************)
C34_CheckpointOrder ==
    \A j, k \in 1..Len(events) :
        j < k => Checkpoint(events[j].stage) <= Checkpoint(events[k].stage)


(***************************************************************************)
(* Claims about the release of the tabs                                    *)
(***************************************************************************)
AllRoundsRun == Finished /\ sched.rounds > 0
WorkerTabs == 1..(sched.nPages - 1)

(***************************************************************************)
(* C35, as the specification states it: when the detail stage has run all  *)
(* its rounds every tab beyond the first is closed and the primary tab,    *)
(* pages[0], has not been closed.                                          *)
(***************************************************************************)
C35_WorkersReleased ==
    AllRoundsRun =>
        /\ sched.open = {}
        /\ 0 \notin sched.closeCalls

(***************************************************************************)
(* C35, amended: when the detail stage has run all its rounds, close() has *)
(* been called on every tab beyond the first and not on the primary tab;   *)
(* every tab whose close() resolved is closed, and a tab is still open     *)
(* only if its close() rejected, which search() ignores.                   *)
(***************************************************************************)
C35_WorkersReleasedUnlessCloseRejects ==
    AllRoundsRun =>
        /\ sched.nPages = NumTabs(Len(targets))
        /\ sched.closeCalls = WorkerTabs
        /\ sched.released \cap sched.open = {}
        /\ sched.released \cup sched.open = WorkerTabs

\* five tabs, four of them closed after two rounds with a failed item
C35_Witness ==
    /\ AllRoundsRun
    /\ sched.rounds = 2
    /\ sched.fail > 0
    /\ sched.released = 1..4
    /\ sched.open = {}


(***************************************************************************)
(* Claims about the failures of single links in extractBasicList           *)
(***************************************************************************)
SkippedLinks == {k \in 1..Len(web.links) : LinkSkipped(web.links[k])}
LinksRead == SelectSeq(web.links, LAMBDA l : ~LinkSkipped(l))

(***************************************************************************)
(* C36: when extractBasicList has run over the links of the feed, every    *)
(* link has either given exactly one record or added exactly one to the    *)
(* error counter: the error counter is the number of links without href,   *)
(* without text or whose reading raised, the records are those of the      *)
(* other links, in the order of the links, whatever links come before      *)
(* them, and records + error counter = number of links.                    *)
(***************************************************************************)
C36_LinkFailuresIsolated ==
    pc = "extracted" =>
        /\ errorCount = Cardinality(SkippedLinks)
        /\ probe.results = [j \in 1..Len(LinksRead) |-> ParseLink(LinksRead[j])]
        /\ Len(probe.results) + errorCount = Len(web.links)

\* the first link cannot be read, the last one is read
C36_Witness ==
    /\ pc = "extracted"
    /\ Len(web.links) = 3
    /\ web.links[1].fault = "text"
    /\ web.links[2].href = 0
    /\ ~LinkSkipped(web.links[3])
    /\ errorCount = 2
    /\ Len(probe.results) = 1


(***************************************************************************)
(* Claims about the counters of the detail stage                           *)
(***************************************************************************)
\* what processChunk pushes for target k, and the targets of the rounds
\* whose results have been counted
Pushed(k) == ProcessItem(targets[k], PageOf(web, targets[k].url), req.minReviews, req.filters)
Counted == 1..ItemsOfRounds(RoundsJoined)
Class(item) == IF item.error # "" THEN "failed" ELSE IF item.passed THEN "matched" ELSE "filtered"

AllSessionsDone == \A s \in Sessions : probe.at[s] = "done"

(***************************************************************************)
(* C38: no line is sent to the room of a session that has finished, and    *)
(* once all sessions have finished console.log, console.error and          *)
(* console.warn are the functions installed before the first session,      *)
(* whatever the order in which the sessions started and ended.             *)
(***************************************************************************)
C38_ConsoleRestored ==
    /\ \A k \in 1..Len(events) : ~events[k].finished
    /\ AllSessionsDone => probe.console = 0

(***************************************************************************)
(* C39: no 'log', 'progress' or 'complete' event of a session is sent to   *)
(* the session's room before the client of the session has joined it.      *)
(***************************************************************************)
C39_NoEventBeforeJoin ==
    \A k \in 1..Len(events) :
        events[k].by = events[k].room => events[k].joined


(***************************************************************************)
(* Claims about the release of the browser                                 *)
(***************************************************************************)
RunEnded == pc \in {"end", "cliEnd"}

(***************************************************************************)
(* C40: when a run of the server or of the command line has ended, after   *)
(* initialize() was attempted, scraper.close() has been called exactly     *)
(* once, whether the run returned results or none or failed in             *)
(* initialize, in search or in the export; before the end it has been      *)
(* called at most once.                                                    *)
(***************************************************************************)
C40_BrowserReleased ==
    /\ probe.fn \in {"scrape", "cli"} => probe.closes <= 1
    /\ RunEnded => probe.closes = 1


====
